---- MODULE Spec2Model ----
(***************************************************************************)
(* xtgen: the code-assembly engine of src/src/xtgen (generators.py,        *)
(* models.py).  Python strings are TLA+ strings, Python lists are          *)
(* sequences, a call's outcome is a record: the value returned, or the     *)
(* exception raised.                                                       *)
(***************************************************************************)
EXTENDS Integers, Sequences, FiniteSets, TLC

VARIABLES
    api,            \* the entry point this run exercises
    external_name,  \* External.name / the external_name argument
    method_name,    \* MessageMethod.name / the method_name argument
    alias,          \* the alias argument (Optional[str])
    type_signature, \* the type_signature argument of generate_creator_call
    args,           \* List[Param] handed to ArgumentBuilder (constructor arguments)
    params,         \* List[str] handed to build_method_args / generate_message_addmethod
    params_data,    \* External.params_data: the raw param mappings
    outlets_data,   \* External.outlets_data: the raw outlet mappings
    message_methods_data, \* External.message_methods_data
    type_methods_data,    \* External.type_methods_data
    type_str,      \* the type name handed to a type class, a child or TypeMapper
    spec_file,      \* Generator.spec_file: what the file on disk holds
    pc,             \* the position of Generator.render
    spec_data,      \* render's local spec_data, once loaded
    model,          \* Generator.model
    renders,        \* the number of render calls made
    written,        \* the number of output files written
    argv,           \* the parsed command line of main()
    main_pc,        \* the position of main()
    exit_code,      \* what main() returned
    ext,            \* the External object, once constructed
    op,             \* the last operation called
    result          \* its outcome

vars == <<api, external_name, method_name, alias, type_signature, args, params,
          params_data, outlets_data, message_methods_data, type_methods_data,
          type_str, spec_file, pc, spec_data, model, renders, written,
          argv, main_pc, exit_code, ext, op, result>>

----------------------------------------------------------------------------
(* Bounds of the model *)

\* longest argument / parameter list drawn (one past the 6-argument threshold)
MaxArgs == 7
\* longest External.params_data drawn
MaxParams == 3
\* longest list of children drawn when an External has children of every kind
MaxChildren == 2
\* most render calls made on one Generator
MaxRenders == 2
\* the longest params list of an External that mixes constructor arguments
\* with other params
MaxMixed == 7

----------------------------------------------------------------------------
(* Python values *)

\* Optional[str]: None, or a string
None == [isNone |-> TRUE, s |-> ""]
Some(s) == [isNone |-> FALSE, s |-> s]

\* a call returned v
Return(v) == [exc |-> "", msg |-> "", val |-> v]
\* a call raised exception e with message m: nothing is returned
Raise(e, m) == [exc |-> e, msg |-> m, val |-> ""]
\* nothing called yet
NoResult == [exc |-> "", msg |-> "", val |-> ""]

\* str(i) of a non-negative int
str(i) == ToString(i)

\* sep.join(list)
RECURSIVE join(_, _)
join(sep, list) ==
    IF Len(list) = 0 THEN ""
    ELSE IF Len(list) = 1 THEN list[1]
    ELSE list[1] \o sep \o join(sep, Tail(list))

\* str(list(keys)) of a list of strings: "['a', 'b']"
RECURSIVE quoted(_)
quoted(list) ==
    IF Len(list) = 0 THEN <<>>
    ELSE <<"'" \o list[1] \o "'">> \o quoted(Tail(list))

repr_list(list) == "[" \o join(", ", quoted(list)) \o "]"

----------------------------------------------------------------------------
(* generators.py: TypeMapper *)

TYPE_MAPPINGS ==
    [float |-> "A_DEFFLOAT", symbol |-> "A_DEFSYMBOL", anything |-> "A_GIMME"]

FUNC_TYPE_ARGS ==
    [float |-> "t_floatarg f", symbol |-> "t_symbol *s",
     anything |-> "t_symbol *s, int argc, t_atom *argv"]

\* the insertion order of the two dicts' keys
MAPPING_KEYS == <<"float", "symbol", "anything">>

\* a variant whose table also maps "int"
get_pd_mapping_with_int(type_name) ==
    IF type_name = "int" THEN Return("A_DEFFLOAT")
    ELSE IF type_name \notin DOMAIN TYPE_MAPPINGS
    THEN Raise("AudioTypeError",
               "Unknown type mapping for '" \o type_name \o "'. Valid types: "
                   \o repr_list(MAPPING_KEYS))
    ELSE Return(TYPE_MAPPINGS[type_name])

\* a tag table that also knows "list"
get_pd_mapping_with_list(type_name) ==
    IF type_name = "list" THEN Return("A_GIMME")
    ELSE IF type_name \notin DOMAIN TYPE_MAPPINGS
    THEN Raise("AudioTypeError",
               "Unknown type mapping for '" \o type_name \o "'. Valid types: "
                   \o repr_list(MAPPING_KEYS))
    ELSE Return(TYPE_MAPPINGS[type_name])

get_pd_mapping(type_name) ==
    IF type_name \notin DOMAIN TYPE_MAPPINGS
    THEN Raise("AudioTypeError",
               "Unknown type mapping for '" \o type_name \o "'. Valid types: "
                   \o repr_list(MAPPING_KEYS))
    ELSE Return(TYPE_MAPPINGS[type_name])

\* a variant whose table also serves "int"
get_func_arg_with_int(type_name) ==
    IF type_name = "int" THEN Return("t_floatarg f")
    ELSE IF type_name \notin DOMAIN FUNC_TYPE_ARGS
    THEN Raise("AudioTypeError",
               "Unknown function argument type '" \o type_name \o "'. Valid types: "
                   \o repr_list(MAPPING_KEYS))
    ELSE Return(FUNC_TYPE_ARGS[type_name])

get_func_arg(type_name) ==
    IF type_name \notin DOMAIN FUNC_TYPE_ARGS
    THEN Raise("AudioTypeError",
               "Unknown function argument type '" \o type_name \o "'. Valid types: "
                   \o repr_list(MAPPING_KEYS))
    ELSE Return(FUNC_TYPE_ARGS[type_name])

----------------------------------------------------------------------------
(* generators.py: ArgumentBuilder *)

\* the host's limit of individually typed arguments
MAX_TYPED_ARGS == 6

\* for i, arg in enumerate(args): type_args.append(get_func_arg(arg.type) + str(i))
\* i counts from 0; an exception of get_func_arg leaves the loop and the function
RECURSIVE ctor_args_loop(_, _, _)
ctor_args_loop(arglist, i, type_args) ==
    IF i >= Len(arglist) THEN Return(join(", ", type_args))
    ELSE LET func_arg == get_func_arg(arglist[i + 1].type) IN
         IF func_arg.exc # "" THEN func_arg
         ELSE ctor_args_loop(arglist, i + 1, Append(type_args, func_arg.val \o str(i)))

\* a variant that numbers the arguments of each type separately (f0, s0, f1)
RECURSIVE ctor_args_loop_per_type(_, _, _)
ctor_args_loop_per_type(arglist, i, type_args) ==
    IF i >= Len(arglist) THEN Return(join(", ", type_args))
    ELSE LET func_arg == get_func_arg(arglist[i + 1].type)
             n == Cardinality({j \in 1..i : arglist[j].type = arglist[i + 1].type}) IN
         IF func_arg.exc # "" THEN func_arg
         ELSE ctor_args_loop_per_type(arglist, i + 1,
                                      Append(type_args, func_arg.val \o str(n)))

build_constructor_args_per_type(arglist) ==
    IF Len(arglist) = 0 THEN Return("void")
    ELSE IF 0 < Len(arglist) /\ Len(arglist) <= MAX_TYPED_ARGS
    THEN ctor_args_loop_per_type(arglist, 0, <<>>)
    ELSE Return("t_symbol *s, int argc, t_atom *argv")

build_constructor_args(arglist) ==
    IF Len(arglist) = 0 THEN Return("void")
    ELSE IF 0 < Len(arglist) /\ Len(arglist) <= MAX_TYPED_ARGS
    THEN ctor_args_loop(arglist, 0, <<>>)
    ELSE Return("t_symbol *s, int argc, t_atom *argv")

\* for arg in args: mappings.append(get_pd_mapping(arg.type))
RECURSIVE type_sig_loop(_, _, _)
type_sig_loop(arglist, i, mappings) ==
    IF i >= Len(arglist) THEN Return(join(", ", mappings) \o ", 0")
    ELSE LET mapping == get_pd_mapping(arglist[i + 1].type) IN
         IF mapping.exc # "" THEN mapping
         ELSE type_sig_loop(arglist, i + 1, Append(mappings, mapping.val))

\* a variant without the fallback for many arguments
build_type_signature_no_limit(arglist) ==
    IF Len(arglist) = 0 THEN Return(", 0")
    ELSE type_sig_loop(arglist, 0, <<>>)

\* a variant that forgets the suffix after the per-argument tags
RECURSIVE type_sig_loop_no_suffix(_, _, _)
type_sig_loop_no_suffix(arglist, i, mappings) ==
    IF i >= Len(arglist) THEN Return(join(", ", mappings))
    ELSE LET mapping == get_pd_mapping(arglist[i + 1].type) IN
         IF mapping.exc # "" THEN mapping
         ELSE type_sig_loop_no_suffix(arglist, i + 1, Append(mappings, mapping.val))

build_type_signature_no_suffix(arglist) ==
    IF Len(arglist) = 0 THEN Return(", 0")
    ELSE IF 0 < Len(arglist) /\ Len(arglist) <= MAX_TYPED_ARGS
    THEN type_sig_loop_no_suffix(arglist, 0, <<>>)
    ELSE Return("A_GIMME, 0")

build_type_signature(arglist) ==
    LET suffix == ", 0" IN
    IF Len(arglist) = 0 THEN Return(suffix)
    ELSE IF 0 < Len(arglist) /\ Len(arglist) <= MAX_TYPED_ARGS
    THEN type_sig_loop(arglist, 0, <<>>)
    ELSE Return("A_GIMME" \o suffix)

\* for i, param_type in enumerate(params): type_args.append(get_func_arg(param_type) + str(i))
RECURSIVE method_args_loop(_, _, _, _)
method_args_loop(base_arg, plist, i, type_args) ==
    IF i >= Len(plist) THEN Return(base_arg \o ", " \o join(", ", type_args))
    ELSE LET func_arg == get_func_arg(plist[i + 1]) IN
         IF func_arg.exc # "" THEN func_arg
         ELSE method_args_loop(base_arg, plist, i + 1,
                               Append(type_args, func_arg.val \o str(i)))

\* a variant whose catch-all branch drops the self-reference
build_method_args_no_self(external_type, plist) ==
    LET base_arg == external_type \o " *x" IN
    IF Len(plist) = 0 THEN Return(base_arg)
    ELSE IF plist = <<"list">> \/ Len(plist) > MAX_TYPED_ARGS
    THEN Return("t_symbol *s, int argc, t_atom *argv")
    ELSE method_args_loop(base_arg, plist, 0, <<>>)

\* a variant without the [list] special case
build_method_args_no_list(external_type, plist) ==
    LET base_arg == external_type \o " *x" IN
    IF Len(plist) = 0 THEN Return(base_arg)
    ELSE IF Len(plist) > MAX_TYPED_ARGS
    THEN Return(base_arg \o ", t_symbol *s, int argc, t_atom *argv")
    ELSE method_args_loop(base_arg, plist, 0, <<>>)

\* a variant that takes the shortcut whenever "list" occurs in params
build_method_args_any_list(external_type, plist) ==
    LET base_arg == external_type \o " *x" IN
    IF Len(plist) = 0 THEN Return(base_arg)
    ELSE IF (\E i \in 1..Len(plist) : plist[i] = "list") \/ Len(plist) > MAX_TYPED_ARGS
    THEN Return(base_arg \o ", t_symbol *s, int argc, t_atom *argv")
    ELSE method_args_loop(base_arg, plist, 0, <<>>)

\* a variant that takes the generic branch for ["anything"] as for ["list"]
build_method_args_anything_generic(external_type, plist) ==
    LET base_arg == external_type \o " *x" IN
    IF Len(plist) = 0 THEN Return(base_arg)
    ELSE IF plist \in {<<"list">>, <<"anything">>} \/ Len(plist) > MAX_TYPED_ARGS
    THEN Return(base_arg \o ", t_symbol *s, int argc, t_atom *argv")
    ELSE method_args_loop(base_arg, plist, 0, <<>>)

build_method_args(external_type, plist) ==
    LET base_arg == external_type \o " *x" IN
    IF Len(plist) = 0 THEN Return(base_arg)
    ELSE IF plist = <<"list">> \/ Len(plist) > MAX_TYPED_ARGS
    THEN Return(base_arg \o ", t_symbol *s, int argc, t_atom *argv")
    ELSE method_args_loop(base_arg, plist, 0, <<>>)

----------------------------------------------------------------------------
(* generators.py: CodeGenerator *)

\* for param_type in params: mappings.append(get_pd_mapping(param_type))
RECURSIVE addmethod_loop(_, _, _, _)
addmethod_loop(prefix, plist, i, mappings) ==
    IF i >= Len(plist) THEN Return(prefix \o ", " \o join(", ", mappings) \o ", 0)")
    ELSE LET mapping == get_pd_mapping(plist[i + 1]) IN
         IF mapping.exc # "" THEN mapping
         ELSE addmethod_loop(prefix, plist, i + 1, Append(mappings, mapping.val))

\* a variant whose threshold is off by one (>= 6 instead of > 6)
generate_message_addmethod_ge(ename, mname, plist) ==
    LET prefix == "class_addmethod(" \o ename \o "_class, "
                  \o "(t_method)" \o ename \o "_" \o mname \o ", "
                  \o "gensym(\"" \o mname \o "\")" IN
    IF Len(plist) = 0 THEN Return(prefix \o ", 0)")
    ELSE IF plist = <<"list">> \/ Len(plist) >= MAX_TYPED_ARGS
    THEN Return(prefix \o ", A_GIMME, 0)")
    ELSE addmethod_loop(prefix, plist, 0, <<>>)

generate_message_addmethod(ename, mname, plist) ==
    LET prefix == "class_addmethod(" \o ename \o "_class, "
                  \o "(t_method)" \o ename \o "_" \o mname \o ", "
                  \o "gensym(\"" \o mname \o "\")" IN
    IF Len(plist) = 0 THEN Return(prefix \o ", 0)")
    ELSE IF plist = <<"list">> \/ Len(plist) > MAX_TYPED_ARGS
    THEN Return(prefix \o ", A_GIMME, 0)")
    ELSE addmethod_loop(prefix, plist, 0, <<>>)

\* a variant that registers every type method through class_addmethod
generate_class_addmethod_generic(ename, mname, mtype) ==
    Return("class_addmethod(" \o ename \o "_class, " \o ename \o "_" \o mtype \o ")")

\* CodeGenerator.generate_class_addmethod (method_name is not used by the code)
generate_class_addmethod(ename, mname, mtype) ==
    Return("class_add" \o mtype \o "(" \o ename \o "_class, " \o ename \o "_" \o mtype \o ")")

\* a variant that only tests `not alias`
generate_creator_call_no_eq(ename, al, sig) ==
    IF al.isNone \/ al.s = ""
    THEN Return("")
    ELSE Return("class_addcreator((t_newmethod)" \o ename \o "_new, gensym(\""
                \o al.s \o "\"), " \o sig \o ")")

\* a variant that drops the separator an empty signature begins with
generate_creator_call_trimmed(ename, al, sig) ==
    IF (al.isNone \/ al.s = "") \/ al.s = ename
    THEN Return("")
    ELSE Return("class_addcreator((t_newmethod)" \o ename \o "_new, gensym(\""
                \o al.s \o "\"), "
                \o (IF SubSeq(sig, 1, 2) = ", " THEN SubSeq(sig, 3, Len(sig)) ELSE sig)
                \o ")")

\* `not alias`: None and the empty string are falsy
generate_creator_call(ename, al, sig) ==
    IF (al.isNone \/ al.s = "") \/ al.s = ename
    THEN Return("")
    ELSE Return("class_addcreator((t_newmethod)" \o ename \o "_new, gensym(\""
                \o al.s \o "\"), " \o sig \o ")")

----------------------------------------------------------------------------
(* models.py: the type classes *)

\* x in list
Elems(list) == {list[i] : i \in DOMAIN list}

c_type(tname) == "t_" \o tname
lookup_address(symbol) == "&s_" \o symbol
lookup_routine(symbol) == "gensym(\"" \o symbol \o "\")"

ScalarType_VALID_TYPES == <<"bang", "float", "symbol", "pointer", "signal">>
CompoundType_VALID_TYPES == <<"list", "anything">>

\* AbstractType(name) of class cls and its __post_init__
AbstractType(cls, name, VALID_TYPES) ==
    IF name \notin Elems(VALID_TYPES)
    THEN Raise("AudioTypeError",
               "Invalid type '" \o name \o "'. Valid types: " \o repr_list(VALID_TYPES))
    ELSE Return([cls |-> cls, name |-> name])

\* a ScalarType that also admits "int"
ScalarType_with_int(name) ==
    AbstractType("ScalarType", name, ScalarType_VALID_TYPES \o <<"int">>)

ScalarType(name) == AbstractType("ScalarType", name, ScalarType_VALID_TYPES)
CompoundType(name) == AbstractType("CompoundType", name, CompoundType_VALID_TYPES)

\* AbstractType.__str__
AbstractType_str(self) == Return(self.name)

\* a c_type property with no special case
c_type_property_total(self) == Return(c_type(self.name))

\* ScalarType.c_type, CompoundType.c_type
c_type_property(self) ==
    IF self.cls = "CompoundType" /\ self.name = "anything"
    THEN Raise("AudioTypeError", "C type not available for 'anything' type")
    ELSE Return(c_type(self.name))

\* ScalarType.lookup_address, CompoundType.lookup_address
lookup_address_property(self) == Return(lookup_address(self.name))

\* ScalarType.lookup_routine, CompoundType.lookup_routine
lookup_routine_property(self) == Return(lookup_routine(self.name))

TypeClasses == {"ScalarType", "CompoundType"}
TypeProperties == {"name", "str", "c_type", "lookup_address", "lookup_routine"}

\* obj.<prop> of a type object
type_property(self, prop) ==
    CASE prop = "name" -> Return(self.name)
      [] prop = "str" -> AbstractType_str(self)
      [] prop = "c_type" -> c_type_property(self)
      [] prop = "lookup_address" -> lookup_address_property(self)
      [] prop = "lookup_routine" -> lookup_routine_property(self)

\* cls(name): the constructor call
new_type(cls, name) ==
    IF cls = "ScalarType" THEN ScalarType(name) ELSE CompoundType(name)

\* cls(name).<prop>: a failed construction leaves nothing to read
new_type_property(cls, name, prop) ==
    LET obj == new_type(cls, name) IN
    IF obj.exc # "" THEN obj ELSE type_property(obj.val, prop)

----------------------------------------------------------------------------
(* models.py: Param *)

C_TYPES ==
    [atom |-> "t_atom", float |-> "t_float", symbol |-> "t_symbol",
     int |-> "t_int", signal |-> "t_signal", sample |-> "t_sample"]

C_TYPES_KEYS == <<"atom", "float", "symbol", "int", "signal", "sample">>

\* dict.get(key, default) of a raw mapping
get(d, key, default) == IF key \in DOMAIN d THEN d[key] ELSE default

\* a Param without __post_init__
Param_unchecked(name, type, is_arg, has_inlet) ==
    Return([name |-> name, type |-> type, is_arg |-> is_arg, has_inlet |-> has_inlet])

\* Param(...): the dataclass' fields, then __post_init__ checks the type
Param(name, type, is_arg, has_inlet) ==
    IF type \notin DOMAIN C_TYPES
    THEN Raise("AudioTypeError",
               "Invalid parameter type '" \o type \o "'. Valid types: "
                   \o repr_list(C_TYPES_KEYS))
    ELSE Return([name |-> name, type |-> type, is_arg |-> is_arg,
                 has_inlet |-> has_inlet])

----------------------------------------------------------------------------
(* models.py: External *)

NoExternal ==
    [constructed |-> FALSE, name |-> "", alias |-> None, params_data |-> <<>>,
     outlets_data |-> <<>>, message_methods_data |-> <<>>, type_methods_data |-> <<>>]

\* External(name=..., alias=..., params_data=..., outlets_data=...,
\* message_methods_data=..., type_methods_data=...) and its __post_init__:
\* an alias of None becomes the name; the children stay raw data
External(name, al, pdata, odata, mdata, tdata) ==
    [constructed |-> TRUE,
     name |-> name,
     alias |-> IF al.isNone THEN Some(name) ELSE al,
     params_data |-> pdata,
     outlets_data |-> odata,
     message_methods_data |-> mdata,
     type_methods_data |-> tdata]

\* External.type
ext_type(self) == "t_" \o self.name

\* External.param_objects: one Param per raw mapping, in order; the first
\* Param whose construction raises ends the property with that exception
RECURSIVE param_objects_loop(_, _, _)
param_objects_loop(pdata, i, res) ==
    IF i > Len(pdata) THEN Return(res)
    ELSE LET param == Param(pdata[i].name, pdata[i].type,
                            get(pdata[i], "arg", FALSE),
                            get(pdata[i], "inlet", FALSE)) IN
         IF param.exc # "" THEN param
         ELSE param_objects_loop(pdata, i + 1, Append(res, param.val))

param_objects(self) == param_objects_loop(self.params_data, 1, <<>>)

\* a selection that keeps every param, flagged or not
only_args_all(list) == list

\* [p for p in list if p.is_arg]
RECURSIVE only_args(_)
only_args(list) ==
    IF Len(list) = 0 THEN <<>>
    ELSE IF list[1].is_arg THEN <<list[1]>> \o only_args(Tail(list))
    ELSE only_args(Tail(list))

\* External.args
ext_args(self) ==
    LET objs == param_objects(self) IN
    IF objs.exc # "" THEN objs ELSE Return(only_args(objs.val))

\* [p for p in list if p.has_inlet]
RECURSIVE only_inlets(_)
only_inlets(list) ==
    IF Len(list) = 0 THEN <<>>
    ELSE IF list[1].has_inlet THEN <<list[1]>> \o only_inlets(Tail(list))
    ELSE only_inlets(Tail(list))

\* External.inlets
ext_inlets(self) ==
    LET objs == param_objects(self) IN
    IF objs.exc # "" THEN objs ELSE Return(only_inlets(objs.val))

\* a constructor that takes no arguments whatever the params are
class_new_args_void(self) ==
    LET a == ext_args(self) IN
    IF a.exc # "" THEN a ELSE build_constructor_args(<<>>)

\* External.class_new_args
class_new_args(self) ==
    LET a == ext_args(self) IN
    IF a.exc # "" THEN a ELSE build_constructor_args(a.val)

\* External.class_type_signature
class_type_signature(self) ==
    LET a == ext_args(self) IN
    IF a.exc # "" THEN a ELSE build_type_signature(a.val)

\* External.class_addcreator: the signature argument is evaluated before the call
class_addcreator(self) ==
    LET sig == class_type_signature(self) IN
    IF sig.exc # "" THEN sig
    ELSE generate_creator_call(self.name, self.alias, sig.val)

----------------------------------------------------------------------------
(* models.py: TypeMethod, MessageMethod, Outlet *)

TypeMethod_VALID_TYPES ==
    <<"bang", "float", "int", "symbol", "pointer", "list", "anything">>

\* TypeMethod(parent=..., type=...) and its __post_init__
TypeMethod(parent, type) ==
    IF type \notin Elems(TypeMethod_VALID_TYPES)
    THEN Raise("AudioTypeError",
               "Invalid type method '" \o type \o "'. Valid types: "
                   \o repr_list(TypeMethod_VALID_TYPES))
    ELSE Return([parent |-> parent, type |-> type])

\* TypeMethod.name
TypeMethod_name(self) == self.type

\* an argument table that leaves out a type the constructor accepts
type_args_map_no_pointer ==
    [bang |-> "",
     float |-> ", t_floatarg f",
     int |-> ", t_floatarg f",
     symbol |-> ", t_symbol *s",
     list |-> ", t_symbol *s, int argc, t_atom *argv",
     anything |-> ", t_symbol *s, int argc, t_atom *argv"]

type_args_map ==
    [bang |-> "",
     float |-> ", t_floatarg f",
     int |-> ", t_floatarg f",
     symbol |-> ", t_symbol *s",
     pointer |-> ", t_gpointer *pt",
     list |-> ", t_symbol *s, int argc, t_atom *argv",
     anything |-> ", t_symbol *s, int argc, t_atom *argv"]

\* a variant that numbers the scalar argument as the constructor arguments are
TypeMethod_args_ordinal(self) ==
    LET base_arg == ext_type(self.parent) \o " *x" IN
    IF self.type \notin DOMAIN type_args_map
    THEN Raise("AudioTypeError",
               "Argument generation not implemented for type '" \o self.type \o "'")
    ELSE IF self.type \in {"float", "int"}
    THEN Return(base_arg \o ", t_floatarg f0")
    ELSE Return(base_arg \o type_args_map[self.type])

\* TypeMethod.args
TypeMethod_args(self) ==
    LET base_arg == ext_type(self.parent) \o " *x" IN
    IF self.type \notin DOMAIN type_args_map
    THEN Raise("AudioTypeError",
               "Argument generation not implemented for type '" \o self.type \o "'")
    ELSE Return(base_arg \o type_args_map[self.type])

\* TypeMethod.class_addmethod
TypeMethod_class_addmethod(self) ==
    generate_class_addmethod(self.parent.name, TypeMethod_name(self), self.type)

\* MessageMethod(parent=..., name=..., params=...): no __post_init__
MessageMethod(parent, name, plist) ==
    Return([parent |-> parent, name |-> name, params |-> plist])

\* MessageMethod.args
MessageMethod_args(self) == build_method_args(ext_type(self.parent), self.params)

\* MessageMethod.class_addmethod
MessageMethod_class_addmethod(self) ==
    generate_message_addmethod(self.parent.name, self.name, self.params)

valid_outlet_types == <<"float", "bang", "symbol", "list", "anything">>

\* an Outlet that skips the check of __post_init__
Outlet_unchecked(parent, name, type) ==
    Return([parent |-> parent, name |-> name, type |-> type])

\* Outlet(parent=..., name=..., type=...) and its __post_init__
Outlet(parent, name, type) ==
    IF type \notin Elems(valid_outlet_types)
    THEN Raise("AudioTypeError",
               "Invalid outlet type '" \o type \o "'. Valid types: "
                   \o repr_list(valid_outlet_types))
    ELSE Return([parent |-> parent, name |-> name, type |-> type])

----------------------------------------------------------------------------
(* models.py: External's lists of children *)

\* External.outlet_objects: one Outlet per raw mapping, in order; the first
\* construction that raises ends the comprehension
RECURSIVE outlet_objects_loop(_, _, _)
outlet_objects_loop(self, i, res) ==
    IF i > Len(self.outlets_data) THEN Return(res)
    ELSE LET o == self.outlets_data[i]
             outlet == Outlet(self, o.name, o.type) IN
         IF outlet.exc # "" THEN outlet
         ELSE outlet_objects_loop(self, i + 1, Append(res, outlet.val))

outlet_objects(self) == outlet_objects_loop(self, 1, <<>>)

\* External.type_method_objects
RECURSIVE type_method_objects_loop(_, _, _)
type_method_objects_loop(self, i, res) ==
    IF i > Len(self.type_methods_data) THEN Return(res)
    ELSE LET m == TypeMethod(self, self.type_methods_data[i].type) IN
         IF m.exc # "" THEN m
         ELSE type_method_objects_loop(self, i + 1, Append(res, m.val))

type_method_objects(self) == type_method_objects_loop(self, 1, <<>>)

\* External.message_method_objects
RECURSIVE message_method_objects_loop(_, _, _)
message_method_objects_loop(self, i, res) ==
    IF i > Len(self.message_methods_data) THEN Return(res)
    ELSE LET method_data == self.message_methods_data[i]
             method == MessageMethod(self, method_data.name,
                                     get(method_data, "params", <<>>)) IN
         IF method.exc # "" THEN method
         ELSE message_method_objects_loop(self, i + 1, Append(res, method.val))

message_method_objects(self) == message_method_objects_loop(self, 1, <<>>)

\* e.message_methods[i].<member> and e.type_methods[i].<member>, i counted
\* from 1: the list is read first, then the member of its i-th object
message_method_member(self, i, member) ==
    LET objs == message_method_objects(self) IN
    IF objs.exc # "" THEN objs
    ELSE IF member = "args" THEN MessageMethod_args(objs.val[i])
    ELSE MessageMethod_class_addmethod(objs.val[i])

type_method_member(self, i, member) ==
    LET objs == type_method_objects(self) IN
    IF objs.exc # "" THEN objs
    ELSE IF member = "args" THEN TypeMethod_args(objs.val[i])
    ELSE TypeMethod_class_addmethod(objs.val[i])

----------------------------------------------------------------------------
(* templates.py: Generator *)

\* parsed YAML / JSON values, each with its Python type
PyNone == [kind |-> "NoneType"]
PyStr(x) == [kind |-> "str", s |-> x]
PyList(items) == [kind |-> "list", items |-> items]
PyDict(d) == [kind |-> "dict", d |-> d]

isinstance(x, class) == x.kind = class

\* `for param in ext.get("params", [])` of validate_specification_structure
RECURSIVE validate_params_loop(_, _)
validate_params_loop(items, i) ==
    IF i > Len(items) THEN Return(TRUE)
    ELSE IF ~isinstance(items[i], "dict")
    THEN Raise("ValueError", "Each parameter must be a dictionary")
    ELSE IF "name" \notin DOMAIN items[i].d
    THEN Raise("ValueError", "Parameter must contain required field: 'name'")
    ELSE IF "type" \notin DOMAIN items[i].d
    THEN Raise("ValueError", "Parameter must contain required field: 'type'")
    ELSE validate_params_loop(items, i + 1)

\* the list-valued key is present and holds something else than a list
NotAList(ext_data, key) ==
    key \in DOMAIN ext_data.d /\ ~isinstance(ext_data.d[key], "list")

\* a validation that requires the name only
validate_specification_structure_name_only(data) ==
    IF ~isinstance(data, "dict")
    THEN Raise("ValueError", "Specification file must contain a dictionary")
    ELSE IF "externals" \notin DOMAIN data.d
    THEN Raise("ValueError", "Specification file must contain 'externals' key")
    ELSE IF ~isinstance(data.d.externals, "list") \/ Len(data.d.externals.items) = 0
    THEN Raise("ValueError", "'externals' must be a non-empty list")
    ELSE LET ext_data == data.d.externals.items[1] IN
         IF "name" \notin DOMAIN ext_data.d
         THEN Raise("ValueError", "External must contain required field: 'name'")
         ELSE IF NotAList(ext_data, "params")
         THEN Raise("ValueError", "'params' must be a list")
         ELSE IF NotAList(ext_data, "outlets")
         THEN Raise("ValueError", "'outlets' must be a list")
         ELSE IF NotAList(ext_data, "message_methods")
         THEN Raise("ValueError", "'message_methods' must be a list")
         ELSE IF NotAList(ext_data, "type_methods")
         THEN Raise("ValueError", "'type_methods' must be a list")
         ELSE validate_params_loop(get(ext_data.d, "params", PyList(<<>>)).items, 1)

\* Generator.validate_specification_structure
validate_specification_structure(data) ==
    IF ~isinstance(data, "dict")
    THEN Raise("ValueError", "Specification file must contain a dictionary")
    ELSE IF "externals" \notin DOMAIN data.d
    THEN Raise("ValueError", "Specification file must contain 'externals' key")
    ELSE IF ~isinstance(data.d.externals, "list") \/ Len(data.d.externals.items) = 0
    THEN Raise("ValueError", "'externals' must be a non-empty list")
    ELSE LET ext_data == data.d.externals.items[1] IN
         IF "name" \notin DOMAIN ext_data.d
         THEN Raise("ValueError", "External must contain required field: 'name'")
         ELSE IF "namespace" \notin DOMAIN ext_data.d
         THEN Raise("ValueError", "External must contain required field: 'namespace'")
         ELSE IF NotAList(ext_data, "params")
         THEN Raise("ValueError", "'params' must be a list")
         ELSE IF NotAList(ext_data, "outlets")
         THEN Raise("ValueError", "'outlets' must be a list")
         ELSE IF NotAList(ext_data, "message_methods")
         THEN Raise("ValueError", "'message_methods' must be a list")
         ELSE IF NotAList(ext_data, "type_methods")
         THEN Raise("ValueError", "'type_methods' must be a list")
         ELSE validate_params_loop(get(ext_data.d, "params", PyList(<<>>)).items, 1)

\* the raw mappings of a parsed list of dictionaries
raw(list) == [i \in 1..Len(list.items) |-> list.items[i].d]

\* render: the External built from the first entry of "externals";
\* ext_data.get(key, []) of each list-valued key, ext_data.get("alias")
external_of(ext_data) ==
    External(ext_data.d.name.s,
             IF "alias" \in DOMAIN ext_data.d THEN Some(ext_data.d.alias.s) ELSE None,
             raw(get(ext_data.d, "params", PyList(<<>>))),
             raw(get(ext_data.d, "outlets", PyList(<<>>))),
             raw(get(ext_data.d, "message_methods", PyList(<<>>))),
             raw(get(ext_data.d, "type_methods", PyList(<<>>))))

----------------------------------------------------------------------------
(* generators.py: the branch each builder takes, from its if / elif / else *)

build_constructor_args_branch(arglist) ==
    IF Len(arglist) = 0 THEN "empty"
    ELSE IF 0 < Len(arglist) /\ Len(arglist) <= MAX_TYPED_ARGS THEN "per-position"
    ELSE "generic"

build_type_signature_branch(arglist) ==
    IF Len(arglist) = 0 THEN "empty"
    ELSE IF 0 < Len(arglist) /\ Len(arglist) <= MAX_TYPED_ARGS THEN "per-position"
    ELSE "generic"

build_method_args_branch(plist) ==
    IF Len(plist) = 0 THEN "empty"
    ELSE IF plist = <<"list">> \/ Len(plist) > MAX_TYPED_ARGS THEN "generic"
    ELSE "per-position"

generate_message_addmethod_branch(plist) ==
    IF Len(plist) = 0 THEN "empty"
    ELSE IF plist = <<"list">> \/ Len(plist) > MAX_TYPED_ARGS THEN "generic"
    ELSE "per-position"

----------------------------------------------------------------------------
(* cli.py, and the generate methods of templates.py *)

\* cli.validate_specification: load and validate, every exception caught
validate_specification(file) ==
    IF file.kind # "parsed" THEN FALSE
    ELSE validate_specification_structure(file.data).exc = ""

\* the number of templates generate renders: MaxProject 2, PdProject 3
templates(target) == IF target = "max" THEN 2 ELSE 3

----------------------------------------------------------------------------
(* The inputs drawn *)

\* every list over S of at most n entries
ListsUpTo(S, n) == UNION {[1..k -> S] : k \in 0..n}

\* types of the Params handed to ArgumentBuilder directly
ArgTypes == {"float", "symbol", "anything", "int"}
\* parameter type names of a message method
ParamTypes == {"float", "symbol", "anything", "list"}

ExternalNames == {"counter", "osc"}

\* raw outlet, type method and message method mappings of a specification
OutletEntries ==
    {[name |-> "out", type |-> "float"], [name |-> "ptr", type |-> "pointer"]}
TypeMethodEntries == {[type |-> "bang"], [type |-> "signal"]}
MessageMethodLists ==
    {<<>>, <<[name |-> "reset"]>>, <<[name |-> "set", params |-> <<"float">>]>>}

\* a key of the external entry that is not there
Absent == [kind |-> "absent"]

\* what each key of the external entry of a specification may hold
EntryValues ==
    [name : {Absent, PyStr("counter")},
     namespace : {Absent, PyStr("xt")},
     params : {Absent,
               PyList(<<>>),
               PyList(<<PyDict([name |-> "step", type |-> "float", arg |-> TRUE])>>),
               PyList(<<PyDict([name |-> "bad", type |-> "bogus"])>>),
               PyList(<<PyDict([name |-> "step"])>>),
               PyList(<<PyStr("step")>>),
               PyStr("step")},
     outlets : {Absent, PyList(<<PyDict([name |-> "out", type |-> "float"])>>),
                PyStr("out")},
     message_methods : {Absent, PyList(<<PyDict([name |-> "reset"])>>), PyNone},
     type_methods : {Absent, PyList(<<PyDict([type |-> "bang"])>>), PyStr("bang")}]

\* the dictionary holding the keys that are there
entry(c) == PyDict([key \in {k \in DOMAIN c : c[k] # Absent} |-> c[key]])

\* parsed specifications: with one external entry, or without a usable
\* "externals" list
Specifications ==
    {PyDict([externals |-> PyList(<<entry(c)>>)]) : c \in EntryValues}
    \cup {PyList(<<>>),
          PyDict([meta |-> PyNone]),
          PyDict([externals |-> PyStr("counter")]),
          PyDict([externals |-> PyList(<<>>)])}

\* the specification file: not there, not parseable, or parsed
Missing == [kind |-> "missing"]
Garbled == [kind |-> "garbled"]
Parsed(data) == [kind |-> "parsed", data |-> data]
SpecFiles == {Missing, Garbled} \cup {Parsed(data) : data \in Specifications}

\* what the file may hold after it is rewritten between two renders
EditedSpecFiles ==
    {Missing,
     Parsed(PyDict([externals |-> PyList(<<PyDict([name |-> PyStr("osc"),
                                                    namespace |-> PyStr("xt")])>>)])),
     Parsed(PyDict([externals |-> PyList(<<PyDict([namespace |-> PyStr("xt")])>>)])),
     Parsed(PyDict([externals |-> PyList(<<PyDict([name |-> PyStr("osc"),
                                                    namespace |-> PyStr("xt"),
                                                    params |-> PyStr("step")])>>)]))}

\* the specification files main() is run on
CliSpecFiles == EditedSpecFiles \cup {Garbled}

\* the parsed command lines
CommandLines ==
    [verbose : BOOLEAN, quiet : BOOLEAN, list_examples : BOOLEAN,
     validate : BOOLEAN, target : {"pd", "max"}]

\* no command line
NoArgs ==
    [verbose |-> FALSE, quiet |-> FALSE, list_examples |-> FALSE,
     validate |-> FALSE, target |-> "pd"]

\* the Param types without an entry in TypeMapper's tables
UnmappedParamTypes == {"atom", "int", "signal", "sample"}

\* type names: every name some class accepts, and one none does
TypeNames ==
    {"bang", "float", "symbol", "pointer", "signal", "list", "anything",
     "int", "atom", "sample", "bogus"}
Aliases == {None, Some(""), Some("counter"), Some("osc"), Some("cntr")}
Signatures == {", 0", "A_DEFFLOAT, 0", "A_GIMME, 0"}

\* raw param mappings of a specification ("arg" may be absent)
ParamEntries ==
    {[name |-> "step", type |-> "float", arg |-> TRUE],
     [name |-> "label", type |-> "symbol", arg |-> TRUE],
     [name |-> "n", type |-> "int", arg |-> TRUE],
     [name |-> "gain", type |-> "float"],
     [name |-> "bad", type |-> "bogus", arg |-> FALSE]}

----------------------------------------------------------------------------
(* The state machine: Init draws the inputs of one entry point, the       *)
(* actions call it.                                                        *)

\* an External without outlets and methods
NoMethods ==
    outlets_data = <<>> /\ message_methods_data = <<>> /\ type_methods_data = <<>>

\* no Generator at work
NoGenerator ==
    /\ spec_file = Missing /\ pc = "idle" /\ spec_data = PyNone
    /\ model = NoExternal /\ renders = 0 /\ written = 0

InitArgumentBuilder ==
    /\ api = "ArgumentBuilder"
    /\ args \in {[i \in DOMAIN l |-> [type |-> l[i]]] : l \in ListsUpTo(ArgTypes, MaxArgs)}
    /\ external_name = "" /\ method_name = "" /\ alias = None /\ type_signature = ""
    /\ params = <<>> /\ params_data = <<>> /\ NoMethods /\ type_str = ""

InitMessageMethod ==
    /\ api = "MessageMethod"
    /\ external_name \in ExternalNames
    /\ method_name = "reset"
    /\ params \in ListsUpTo(ParamTypes, MaxArgs)
    /\ alias = None /\ type_signature = "" /\ args = <<>> /\ params_data = <<>>
    /\ NoMethods /\ type_str = ""

InitCreator ==
    /\ api = "CodeGenerator"
    /\ external_name \in ExternalNames
    /\ alias \in Aliases
    /\ type_signature \in Signatures
    /\ method_name = "" /\ args = <<>> /\ params = <<>> /\ params_data = <<>>
    /\ NoMethods /\ type_str = ""

InitExternal ==
    /\ api = "External"
    /\ external_name = "counter"
    /\ alias \in {None, Some(""), Some("counter"), Some("cntr")}
    /\ params_data \in ListsUpTo(ParamEntries, MaxParams)
    /\ method_name = "" /\ type_signature = "" /\ args = <<>> /\ params = <<>>
    /\ NoMethods /\ type_str = ""

\* an External all of whose params are constructor arguments, as many as are
\* read per position: floats, symbols and params of one Param type that
\* TypeMapper does not map
InitExternalArgs ==
    /\ api = "External"
    /\ external_name = "counter"
    /\ alias = None
    /\ type_str \in UnmappedParamTypes
    /\ params_data \in
         {[i \in DOMAIN l |-> [name |-> "a", type |-> l[i], arg |-> TRUE]] :
            l \in ListsUpTo({"float", "symbol", type_str}, MAX_TYPED_ARGS)}
    /\ method_name = "" /\ type_signature = "" /\ args = <<>> /\ params = <<>>
    /\ NoMethods

\* an External whose params mix constructor arguments with params that are
\* none, more than six of them in all
InitExternalMixed ==
    /\ api = "External"
    /\ external_name = "osc"
    /\ alias = None
    /\ params_data \in ListsUpTo({[name |-> "freq", type |-> "float", arg |-> TRUE],
                                  [name |-> "label", type |-> "symbol"]},
                                 MaxMixed)
    /\ method_name = "" /\ type_signature = "" /\ args = <<>> /\ params = <<>>
    /\ NoMethods /\ type_str = ""

\* an External with params, outlets, type methods and message methods, some
\* of them of a type their class rejects
InitExternalChildren ==
    /\ api = "External"
    /\ external_name = "counter"
    /\ alias = None
    /\ params_data \in ListsUpTo({[name |-> "step", type |-> "float", arg |-> TRUE,
                                   inlet |-> TRUE],
                                  [name |-> "bad", type |-> "bogus", arg |-> FALSE]},
                                 MaxChildren)
    /\ outlets_data \in ListsUpTo(OutletEntries, MaxChildren)
    /\ type_methods_data \in ListsUpTo(TypeMethodEntries, MaxChildren)
    /\ message_methods_data \in MessageMethodLists
    /\ method_name = "" /\ type_signature = "" /\ args = <<>> /\ params = <<>>
    /\ type_str = ""

\* one type name, handed to the type classes, to TypeMapper and to the
\* children of an External named external_name
InitTypes ==
    /\ api = "Types"
    /\ type_str \in TypeNames
    /\ external_name \in ExternalNames
    /\ method_name = "reset"
    /\ alias = None /\ type_signature = "" /\ args = <<>> /\ params = <<>>
    /\ params_data = <<>> /\ NoMethods

\* main() not called
NoMain == argv = NoArgs /\ main_pc = "none" /\ exit_code = 0

\* main() is called with a command line and a specification file; the
\* project generator it will construct has rendered nothing yet
InitMain ==
    /\ api = "CLI"
    /\ argv \in CommandLines
    /\ main_pc = "start" /\ exit_code = 0
    /\ spec_file \in CliSpecFiles
    /\ pc = "idle" /\ spec_data = PyNone
    /\ model = NoExternal /\ renders = 0 /\ written = 0
    /\ external_name = "" /\ method_name = "" /\ alias = None /\ type_signature = ""
    /\ args = <<>> /\ params = <<>> /\ params_data = <<>> /\ NoMethods /\ type_str = ""

\* Generator.__init__: a generator for one specification file, model None
InitGenerator ==
    /\ api = "Generator"
    /\ NoMain
    /\ spec_file \in SpecFiles
    /\ pc = "idle" /\ spec_data = PyNone
    /\ model = NoExternal /\ renders = 0 /\ written = 0
    /\ external_name = "" /\ method_name = "" /\ alias = None /\ type_signature = ""
    /\ args = <<>> /\ params = <<>> /\ params_data = <<>> /\ NoMethods /\ type_str = ""

Init ==
    /\ \/ /\ \/ InitArgumentBuilder
             \/ InitMessageMethod
             \/ InitCreator
             \/ InitExternal
             \/ InitExternalArgs
             \/ InitExternalChildren
             \/ InitExternalMixed
             \/ InitTypes
          /\ NoGenerator
          /\ NoMain
       \/ InitGenerator
       \/ InitMain
    /\ ext = NoExternal
    /\ op = ""
    /\ result = NoResult

inputs == <<api, external_name, method_name, alias, type_signature, args, params,
            params_data, outlets_data, message_methods_data, type_methods_data,
            type_str>>

generator == <<spec_file, pc, spec_data, model, renders, written>>

cli == <<argv, main_pc, exit_code>>

Call(name, outcome) ==
    /\ op' = name
    /\ result' = outcome
    /\ UNCHANGED inputs
    /\ UNCHANGED generator
    /\ UNCHANGED cli

CallBuildConstructorArgs ==
    /\ api = "ArgumentBuilder"
    /\ Call("build_constructor_args", build_constructor_args(args))
    /\ UNCHANGED ext

CallBuildTypeSignature ==
    /\ api = "ArgumentBuilder"
    /\ Call("build_type_signature", build_type_signature(args))
    /\ UNCHANGED ext

CallBuildMethodArgs ==
    /\ api = "MessageMethod"
    /\ Call("build_method_args", build_method_args("t_" \o external_name, params))
    /\ UNCHANGED ext

CallGenerateMessageAddmethod ==
    /\ api = "MessageMethod"
    /\ Call("generate_message_addmethod",
            generate_message_addmethod(external_name, method_name, params))
    /\ UNCHANGED ext

CallGenerateCreatorCall ==
    /\ api = "CodeGenerator"
    /\ Call("generate_creator_call",
            generate_creator_call(external_name, alias, type_signature))
    /\ UNCHANGED ext

Construct ==
    /\ api = "External"
    /\ ~ext.constructed
    /\ ext' = External(external_name, alias, params_data, outlets_data,
                        message_methods_data, type_methods_data)
    /\ Call("External", NoResult)

ReadClassNewArgs ==
    /\ ext.constructed
    /\ Call("class_new_args", class_new_args(ext))
    /\ UNCHANGED ext

ReadClassTypeSignature ==
    /\ ext.constructed
    /\ Call("class_type_signature", class_type_signature(ext))
    /\ UNCHANGED ext

ReadClassAddcreator ==
    /\ ext.constructed
    /\ Call("class_addcreator", class_addcreator(ext))
    /\ UNCHANGED ext

\* a read of params that uses the raw mappings up
ReadParams_draining ==
    /\ ext.constructed
    /\ ext' = [ext EXCEPT !.params_data = <<>>]
    /\ Call("params", param_objects(ext))

\* External.params: the param objects under the name the templates use
ReadParams ==
    /\ ext.constructed
    /\ Call("params", param_objects(ext))
    /\ UNCHANGED ext

\* External.args
ReadArgs ==
    /\ ext.constructed
    /\ Call("args", ext_args(ext))
    /\ UNCHANGED ext

\* External.inlets
ReadInlets ==
    /\ ext.constructed
    /\ Call("inlets", ext_inlets(ext))
    /\ UNCHANGED ext

\* the 0-based index Python writes for the i-th entry
index(i) == "[" \o str(i - 1) \o "]."

\* e.message_methods[i].args, e.message_methods[i].class_addmethod
ReadMessageMethodMember ==
    /\ ext.constructed
    /\ \E i \in DOMAIN ext.message_methods_data, member \in {"args", "class_addmethod"} :
          Call("message_methods" \o index(i) \o member,
               message_method_member(ext, i, member))
    /\ UNCHANGED ext

\* e.type_methods[i].args, e.type_methods[i].class_addmethod
ReadTypeMethodMember ==
    /\ ext.constructed
    /\ \E i \in DOMAIN ext.type_methods_data, member \in {"args", "class_addmethod"} :
          Call("type_methods" \o index(i) \o member,
               type_method_member(ext, i, member))
    /\ UNCHANGED ext

\* External.outlets
ReadOutlets ==
    /\ ext.constructed
    /\ Call("outlets", outlet_objects(ext))
    /\ UNCHANGED ext

\* External.type_methods
ReadTypeMethods ==
    /\ ext.constructed
    /\ Call("type_methods", type_method_objects(ext))
    /\ UNCHANGED ext

\* External.message_methods
ReadMessageMethods ==
    /\ ext.constructed
    /\ Call("message_methods", message_method_objects(ext))
    /\ UNCHANGED ext

\* the External the children of the Types runs belong to
parent == External(external_name, alias, <<>>, <<>>, <<>>, <<>>)

ConstructType ==
    /\ api = "Types"
    /\ \E cls \in TypeClasses : Call(cls, new_type(cls, type_str))
    /\ UNCHANGED ext

ReadTypeProperty ==
    /\ api = "Types"
    /\ \E cls \in TypeClasses, prop \in TypeProperties :
          Call(cls \o "." \o prop, new_type_property(cls, type_str, prop))
    /\ UNCHANGED ext

CallGetPdMapping ==
    /\ api = "Types"
    /\ Call("get_pd_mapping", get_pd_mapping(type_str))
    /\ UNCHANGED ext

CallGetFuncArg ==
    /\ api = "Types"
    /\ Call("get_func_arg", get_func_arg(type_str))
    /\ UNCHANGED ext

ConstructParam ==
    /\ api = "Types"
    /\ \E is_arg \in BOOLEAN : Call("Param", Param("p", type_str, is_arg, FALSE))
    /\ UNCHANGED ext

ConstructOutlet ==
    /\ api = "Types"
    /\ Call("Outlet", Outlet(parent, "out", type_str))
    /\ UNCHANGED ext

ConstructTypeMethod ==
    /\ api = "Types"
    /\ Call("TypeMethod", TypeMethod(parent, type_str))
    /\ UNCHANGED ext

ConstructMessageMethod ==
    /\ api = "Types"
    /\ Call("MessageMethod", MessageMethod(parent, method_name, <<type_str>>))
    /\ UNCHANGED ext

\* TypeMethod(parent, type_str).<prop>
ReadTypeMethodProperty ==
    /\ api = "Types"
    /\ LET m == TypeMethod(parent, type_str) IN
       \/ Call("TypeMethod.name",
               IF m.exc # "" THEN m ELSE Return(TypeMethod_name(m.val)))
       \/ Call("TypeMethod.args",
               IF m.exc # "" THEN m ELSE TypeMethod_args(m.val))
       \/ Call("TypeMethod.class_addmethod",
               IF m.exc # "" THEN m ELSE TypeMethod_class_addmethod(m.val))
    /\ UNCHANGED ext

\* a step of render that raises: the exception leaves render, the locals go
Raised(name, outcome) ==
    /\ op' = name
    /\ result' = outcome
    /\ pc' = "raised"
    /\ spec_data' = PyNone

\* a step of render that goes on to the next one
Goto(name, next) ==
    /\ op' = name
    /\ result' = NoResult
    /\ pc' = next

\* Generator.render is called: directly, or by generate, once per template
\* as long as no render raised
StartRender ==
    /\ \/ /\ api = "Generator"
          /\ pc \in {"idle", "done", "raised"}
          /\ renders < MaxRenders
       \/ /\ main_pc = "render"
          /\ pc \in {"idle", "done"}
          /\ renders < templates(argv.target)
    /\ renders' = renders + 1
    /\ Goto("render", "load")
    /\ UNCHANGED <<inputs, cli, ext, spec_file, spec_data, model, written>>

\* spec_data = self.load_specification()
Load ==
    /\ pc = "load"
    /\ \/ /\ spec_file.kind = "missing"
          /\ Raised("load_specification",
                    Raise("FileNotFoundError", "Specification file not found"))
          /\ UNCHANGED <<inputs, cli, ext, spec_file, model, renders, written>>
       \/ /\ spec_file.kind = "garbled"
          /\ Raised("load_specification", Raise("ValueError", "Invalid syntax"))
          /\ UNCHANGED <<inputs, cli, ext, spec_file, model, renders, written>>
       \/ /\ spec_file.kind = "parsed"
          /\ spec_data' = spec_file.data
          /\ Goto("load_specification", "validate")
          /\ UNCHANGED <<inputs, cli, ext, spec_file, model, renders, written>>

\* a render that goes on whatever the validation says
Validate_unchecked ==
    /\ pc = "validate"
    /\ op' = "validate_specification_structure"
    /\ result' = validate_specification_structure(spec_data)
    /\ pc' = "template"
    /\ UNCHANGED <<inputs, cli, ext, spec_file, spec_data, model, renders, written>>

\* self.validate_specification_structure(spec_data)
Validate ==
    /\ pc = "validate"
    /\ LET v == validate_specification_structure(spec_data) IN
       IF v.exc # ""
       THEN /\ Raised("validate_specification_structure", v)
            /\ UNCHANGED <<inputs, cli, ext, spec_file, model, renders, written>>
       ELSE /\ op' = "validate_specification_structure"
            /\ result' = v
            /\ pc' = "template"
            /\ UNCHANGED <<inputs, cli, ext, spec_file, spec_data, model, renders, written>>

\* templ = Template(filename=...): the template may not be there
LoadTemplate ==
    /\ pc = "template"
    /\ \/ Raised("Template", Raise("ValueError", "Template file not found or invalid"))
       \/ Goto("Template", "construct") /\ UNCHANGED spec_data
    /\ UNCHANGED <<inputs, cli, ext, spec_file, model, renders, written>>

\* self.model = external = External(**external_data)
ConstructModel ==
    /\ pc = "construct"
    /\ model' = external_of(spec_data.d.externals.items[1])
    /\ Goto("External", "render")
    /\ UNCHANGED <<inputs, cli, ext, spec_file, spec_data, renders, written>>

\* rendered = str(templ.render(e=external)): the template may raise
RenderTemplate ==
    /\ pc = "render"
    /\ \/ Raised("Template.render", Raise("ValueError", "Template rendering failed"))
       \/ Goto("Template.render", "write") /\ UNCHANGED spec_data
    /\ UNCHANGED <<inputs, cli, ext, spec_file, model, renders, written>>

\* the output file is written, or the file system refuses
Write ==
    /\ pc = "write"
    /\ \/ /\ Raised("write", Raise("ValueError", "Failed to write output file"))
          /\ UNCHANGED written
       \/ /\ written' = written + 1
          /\ Goto("write", "done")
          /\ spec_data' = PyNone
    /\ UNCHANGED <<inputs, cli, ext, spec_file, model, renders>>

\* the specification file is rewritten between the first and the second render
Edit ==
    /\ api = "Generator"
    /\ pc \in {"done", "raised"}
    /\ renders = 1
    /\ spec_file' \in EditedSpecFiles
    /\ op' = "edit"
    /\ result' = NoResult
    /\ UNCHANGED <<inputs, cli, ext, pc, spec_data, model, renders, written>>

\* main() returns
MainReturn(code) == main_pc' = "returned" /\ exit_code' = code

\* a main() that lists the examples before it looks at --verbose and --quiet
Main_list_first ==
    /\ main_pc = "start"
    /\ IF argv.list_examples THEN MainReturn(0)
       ELSE IF argv.verbose /\ argv.quiet THEN MainReturn(1)
       ELSE IF spec_file.kind = "missing" THEN MainReturn(1)
       ELSE IF argv.validate
       THEN MainReturn(IF validate_specification(spec_file) THEN 0 ELSE 1)
       ELSE main_pc' = "generate" /\ UNCHANGED exit_code
    /\ op' = "main"
    /\ result' = NoResult
    /\ UNCHANGED <<inputs, argv, ext, generator>>

\* main() up to its try block: the option conflict, --list-examples, the
\* missing file, --validate; otherwise the project generator is constructed
Main ==
    /\ main_pc = "start"
    /\ IF argv.verbose /\ argv.quiet THEN MainReturn(1)
       ELSE IF argv.list_examples THEN MainReturn(0)
       ELSE IF spec_file.kind = "missing" THEN MainReturn(1)
       ELSE IF argv.validate
       THEN MainReturn(IF validate_specification(spec_file) THEN 0 ELSE 1)
       ELSE main_pc' = "generate" /\ UNCHANGED exit_code
    /\ op' = "main"
    /\ result' = NoResult
    /\ UNCHANGED <<inputs, argv, ext, generator>>

\* project.generate(): the project directory is made, or cannot be
MakeDirs ==
    /\ main_pc = "generate"
    /\ op' = "generate"
    /\ \/ /\ result' = Raise("OSError", "Failed to create project directory")
          /\ MainReturn(1)
       \/ /\ result' = NoResult
          /\ main_pc' = (IF argv.target = "pd" THEN "copy" ELSE "render")
          /\ UNCHANGED exit_code
    /\ UNCHANGED <<inputs, argv, ext, generator>>

\* PdProject.generate: shutil.copy2 of Makefile.pdlibbuilder, which may raise
CopyMakefile ==
    /\ main_pc = "copy"
    /\ op' = "generate"
    /\ \/ /\ result' = Raise("FileNotFoundError", "Makefile.pdlibbuilder")
          /\ MainReturn(1)
       \/ /\ result' = NoResult
          /\ main_pc' = "render"
          /\ UNCHANGED exit_code
    /\ UNCHANGED <<inputs, argv, ext, generator>>

\* generate is over: a render raised and main() caught it, or every template
\* is rendered
MainEnd ==
    /\ main_pc = "render"
    /\ \/ pc = "raised" /\ MainReturn(1)
       \/ pc = "done" /\ renders = templates(argv.target) /\ MainReturn(0)
    /\ UNCHANGED <<inputs, argv, ext, generator, op, result>>

Next ==
    \/ CallBuildConstructorArgs
    \/ CallBuildTypeSignature
    \/ CallBuildMethodArgs
    \/ CallGenerateMessageAddmethod
    \/ CallGenerateCreatorCall
    \/ Construct
    \/ ReadClassNewArgs
    \/ ReadClassTypeSignature
    \/ ReadClassAddcreator
    \/ ReadParams
    \/ ReadArgs
    \/ ReadInlets
    \/ ReadMessageMethodMember
    \/ ReadTypeMethodMember
    \/ ReadOutlets
    \/ ReadTypeMethods
    \/ ReadMessageMethods
    \/ ConstructType
    \/ ReadTypeProperty
    \/ CallGetPdMapping
    \/ CallGetFuncArg
    \/ ConstructParam
    \/ ConstructOutlet
    \/ ConstructTypeMethod
    \/ ConstructMessageMethod
    \/ ReadTypeMethodProperty
    \/ StartRender
    \/ Load
    \/ Validate
    \/ LoadTemplate
    \/ ConstructModel
    \/ RenderTemplate
    \/ Write
    \/ Edit
    \/ Main
    \/ MakeDirs
    \/ CopyMakefile
    \/ MainEnd

Spec == Init /\ [][Next]_vars

----------------------------------------------------------------------------
(* Reading strings *)

StartsWith(s, p) == Len(s) >= Len(p) /\ SubSeq(s, 1, Len(p)) = p

EndsWith(s, p) == Len(s) >= Len(p) /\ SubSeq(s, Len(s) - Len(p) + 1, Len(s)) = p

Contains(s, p) == \E i \in 1..(Len(s) - Len(p) + 1) : SubSeq(s, i, i + Len(p) - 1) = p

\* s is exactly frags[1] sep frags[2] sep ... frags[n], read position by position
IsJoinOf(s, frags, sep) ==
    LET n == Len(frags)
        start[i \in 1..(n + 1)] ==
            IF i = 1 THEN 1 ELSE start[i - 1] + Len(frags[i - 1]) + Len(sep)
    IN  /\ n >= 1
        /\ Len(s) = start[n + 1] - Len(sep) - 1
        /\ \A i \in 1..n :
               SubSeq(s, start[i], start[i] + Len(frags[i]) - 1) = frags[i]
        /\ \A i \in 1..(n - 1) :
               SubSeq(s, start[i] + Len(frags[i]), start[i + 1] - 1) = sep

\* the decimal digit of position i (one-based index i is zero-based position i - 1)
Digits == <<"0", "1", "2", "3", "4", "5", "6", "7", "8", "9">>

ArgTypeNames == [i \in DOMAIN args |-> args[i].type]

AllMapped(types) == \A i \in DOMAIN types : types[i] \in DOMAIN TYPE_MAPPINGS

TypedCount(list) == Len(list) >= 1 /\ Len(list) <= MAX_TYPED_ARGS

----------------------------------------------------------------------------
(* C1 *)

\* C1: for 1 to 6 arguments whose types all have a Type Mapper entry,
\* build_constructor_args returns len(args) fragments in input order joined by
\* ", ", the fragment at zero-based position i being the argument fragment of
\* type_i immediately followed by the decimal digit i.
C1_ConstructorArgsByPosition ==
    (op = "build_constructor_args" /\ TypedCount(args) /\ AllMapped(ArgTypeNames))
    => /\ result.exc = ""
       /\ IsJoinOf(result.val,
                   [i \in DOMAIN args |-> FUNC_TYPE_ARGS[args[i].type] \o Digits[i]],
                   ", ")

\* two floats around a symbol: the second float is f2, not f1
C1_Witness ==
    /\ op = "build_constructor_args"
    /\ ArgTypeNames = <<"float", "symbol", "float">>
    /\ result = Return("t_floatarg f0, t_symbol *s1, t_floatarg f2")

----------------------------------------------------------------------------
(* C2 *)

\* C2: with more than 6 arguments build_constructor_args returns the generic
\* catch-all fragment and build_type_signature returns "A_GIMME, 0", whatever
\* the types are; no lookup error is raised.
C2_ManyArgsGeneric ==
    (api = "ArgumentBuilder" /\ Len(args) > MAX_TYPED_ARGS)
    => /\ op = "build_constructor_args"
              => result = Return("t_symbol *s, int argc, t_atom *argv")
       /\ op = "build_type_signature" => result = Return("A_GIMME, 0")

\* seven arguments, one of a type without Type Mapper entry
C2_Witness ==
    /\ op = "build_type_signature"
    /\ Len(args) > MAX_TYPED_ARGS
    /\ \E i \in DOMAIN args : args[i].type \notin DOMAIN TYPE_MAPPINGS
    /\ result = Return("A_GIMME, 0")

----------------------------------------------------------------------------
(* C3 *)

\* for 1 to 6 arguments with Type Mapper entries build_type_signature returns
\* the registration tags in input order joined by ", ", then the suffix ", 0"
SignatureIsTags ==
    (op = "build_type_signature" /\ TypedCount(args) /\ AllMapped(ArgTypeNames))
    => /\ result.exc = ""
       /\ EndsWith(result.val, ", 0")
       /\ IsJoinOf(SubSeq(result.val, 1, Len(result.val) - Len(", 0")),
                   [i \in DOMAIN args |-> TYPE_MAPPINGS[args[i].type]],
                   ", ")

----------------------------------------------------------------------------
(* C4 *)

\* no raw param mapping of the External is flagged as constructor argument
NoArgFlagged(pdata) == \A i \in DOMAIN pdata : ~get(pdata[i], "arg", FALSE)

\* C4: with an empty argument list build_constructor_args returns "void" and
\* build_type_signature returns ", 0"; consequently an External whose params
\* list is empty or holds no param flagged as constructor argument has
\* class_new_args = "void" and class_type_signature = ", 0".
C4_NoArgsSentinels ==
    /\ (op = "build_constructor_args" /\ Len(args) = 0) => result = Return("void")
    /\ (op = "build_type_signature" /\ Len(args) = 0) => result = Return(", 0")
    /\ (ext.constructed /\ NoArgFlagged(ext.params_data))
       => /\ op = "class_new_args" => result = Return("void")
          /\ op = "class_type_signature" => result = Return(", 0")

----------------------------------------------------------------------------
(* C5 *)

\* the owner type T handed to build_method_args
OwnerType == "t_" \o external_name

\* C5: whenever build_method_args returns, the result begins with the
\* self-reference "T *x"; with an empty params list it returns exactly "T *x".
C5_MethodArgsSelfFirst ==
    op = "build_method_args"
    => /\ result.exc = "" => StartsWith(result.val, OwnerType \o " *x")
       /\ Len(params) = 0 => result = Return(OwnerType \o " *x")

\* a returning call with parameters: the self-reference comes first
C5_Witness ==
    /\ op = "build_method_args"
    /\ external_name = "osc"
    /\ params = <<"symbol", "float">>
    /\ result = Return("t_osc *x, t_symbol *s0, t_floatarg f1")

----------------------------------------------------------------------------
(* C6 *)

\* C6: for params exactly ["list"] or longer than 6, build_method_args returns
\* the self-reference followed by the generic catch-all triple; no per-position
\* fragment, no lookup error, whatever the types.
C6_MethodArgsGeneric ==
    (op = "build_method_args" /\ (params = <<"list">> \/ Len(params) > MAX_TYPED_ARGS))
    => result = Return(OwnerType \o " *x, t_symbol *s, int argc, t_atom *argv")

\* the single-element list ["list"]
C6_Witness ==
    /\ op = "build_method_args"
    /\ external_name = "counter"
    /\ params = <<"list">>
    /\ result = Return("t_counter *x, t_symbol *s, int argc, t_atom *argv")

----------------------------------------------------------------------------
(* C7 *)

\* C7: for every params list of 1 to 6 entries other than exactly ["list"] that
\* holds a type outside {float, symbol, anything} (["list", "float"] is one),
\* build_method_args and generate_message_addmethod both raise AudioTypeError
\* and return nothing.
C7_UnmappedParamRaises ==
    (/\ op \in {"build_method_args", "generate_message_addmethod"}
     /\ TypedCount(params)
     /\ params # <<"list">>
     /\ \E i \in DOMAIN params : params[i] \notin {"float", "symbol", "anything"})
    => (result.exc = "AudioTypeError" /\ result.val = "")

\* ["list", "float"] reaches the per-position branch and fails on "list"
C7_Witness ==
    /\ op = "build_method_args"
    /\ params = <<"list", "float">>
    /\ result.exc = "AudioTypeError"
    /\ result.msg = "Unknown function argument type 'list'. Valid types: ['float', 'symbol', 'anything']"

----------------------------------------------------------------------------
(* C8 *)

\* the start of the registration call: class, function <ext>_<name>, symbol name
AddmethodHead ==
    "class_addmethod(" \o external_name \o "_class, (t_method)" \o external_name
        \o "_" \o method_name \o ", gensym(\"" \o method_name \o "\"), "

\* the text between `head` and `tail` of s
Between(s, head, tail) == SubSeq(s, Len(head) + 1, Len(s) - Len(tail))

\* C8: generate_message_addmethod returns a call naming <ext>_class, the
\* function <ext>_<name> and gensym("<name>"), followed by "0" alone for no
\* params, by "A_GIMME, 0" for exactly ["list"] or more than 6 params, and
\* otherwise by the registration tags of the params in order, joined by ", " and
\* terminated by "0" (a param without tag makes the call raise the lookup error).
C8_MessageAddmethodCall ==
    op = "generate_message_addmethod"
    => IF Len(params) = 0
       THEN result = Return(AddmethodHead \o "0)")
       ELSE IF params = <<"list">> \/ Len(params) > MAX_TYPED_ARGS
       THEN result = Return(AddmethodHead \o "A_GIMME, 0)")
       ELSE IF AllMapped(params)
       THEN /\ result.exc = ""
            /\ StartsWith(result.val, AddmethodHead)
            /\ EndsWith(result.val, ", 0)")
            /\ IsJoinOf(Between(result.val, AddmethodHead, ", 0)"),
                        [i \in DOMAIN params |-> TYPE_MAPPINGS[params[i]]], ", ")
       ELSE result.exc = "AudioTypeError"

\* six typed params: still the per-parameter branch
C8_Witness ==
    /\ op = "generate_message_addmethod"
    /\ external_name = "counter" /\ method_name = "reset"
    /\ params = <<"float", "symbol", "float", "float", "float", "anything">>
    /\ result = Return("class_addmethod(counter_class, (t_method)counter_reset, gensym(\"reset\"), A_DEFFLOAT, A_DEFSYMBOL, A_DEFFLOAT, A_DEFFLOAT, A_DEFFLOAT, A_GIMME, 0)")

----------------------------------------------------------------------------
(* C9 *)

\* the alias argument is None, empty, or the external's name
AliasRedundant == alias.isNone \/ alias.s = "" \/ alias.s = external_name

\* C9: generate_creator_call returns the empty string if and only if alias is
\* unset (None or empty) or equal to name; otherwise a non-empty
\* class_addcreator call naming <name>_new and containing gensym("<alias>")
\* and the signature.
C9_CreatorCall ==
    op = "generate_creator_call"
    => /\ result.exc = ""
       /\ result.val = "" <=> AliasRedundant
       /\ ~AliasRedundant
          => /\ StartsWith(result.val, "class_addcreator(")
             /\ Contains(result.val, external_name \o "_new")
             /\ Contains(result.val, "gensym(\"" \o alias.s \o "\")")
             /\ Contains(result.val, type_signature)

\* an alias that differs from the name
C9_Witness ==
    /\ op = "generate_creator_call"
    /\ external_name = "counter" /\ alias = Some("cntr")
    /\ type_signature = "A_DEFFLOAT, 0"
    /\ result = Return("class_addcreator((t_newmethod)counter_new, gensym(\"cntr\"), A_DEFFLOAT, 0)")

----------------------------------------------------------------------------
(* C10 *)

\* every raw param mapping names a type Param accepts
ValidParamTypes(pdata) == \A i \in DOMAIN pdata : pdata[i].type \in DOMAIN C_TYPES

\* C10: for every constructed External whose alias was left unset or set equal
\* to its name, reading class_addcreator yields the empty string, whatever the
\* External's params are (stated here for the Externals all of whose params
\* pass Param's type validation).
C10_NoCreatorWithoutAlias ==
    (/\ ext.constructed
     /\ ValidParamTypes(ext.params_data)
     /\ op = "class_addcreator"
     /\ (alias.isNone \/ alias.s = external_name))
    => result = Return("")

----------------------------------------------------------------------------
(* C11 *)

\* the type names a TypeMethod is constructed for
IsTypeMethodType == type_str \in Elems(TypeMethod_VALID_TYPES)

\* C11: TypeMethod.args depends on the type alone: bang gives the
\* self-reference "t_<ext> *x" only; float and int give the self-reference
\* followed by "t_floatarg f", with no ordinal; symbol by "t_symbol *s";
\* pointer by "t_gpointer *pt"; list and anything by
\* "t_symbol *s, int argc, t_atom *argv".
C11_TypeMethodArgs ==
    (op = "TypeMethod.args" /\ IsTypeMethodType)
    => LET self == "t_" \o external_name \o " *x" IN
       result =
         CASE type_str = "bang" -> Return(self)
           [] type_str \in {"float", "int"} -> Return(self \o ", t_floatarg f")
           [] type_str = "symbol" -> Return(self \o ", t_symbol *s")
           [] type_str = "pointer" -> Return(self \o ", t_gpointer *pt")
           [] type_str \in {"list", "anything"} ->
                Return(self \o ", t_symbol *s, int argc, t_atom *argv")

\* the args of an int type method carry no ordinal
C11_Witness ==
    /\ op = "TypeMethod.args"
    /\ external_name = "counter" /\ type_str = "int"
    /\ result = Return("t_counter *x, t_floatarg f")

----------------------------------------------------------------------------
(* C12 *)

\* C12: for every TypeMethod the name equals the type, and class_addmethod is
\* "class_add<type>(<ext>_class, <ext>_<type>)".
C12_TypeMethodRegistration ==
    /\ (op = "TypeMethod.name" /\ IsTypeMethodType) => result = Return(type_str)
    /\ (op = "TypeMethod.class_addmethod" /\ IsTypeMethodType)
       => result = Return("class_add" \o type_str \o "(" \o external_name
                          \o "_class, " \o external_name \o "_" \o type_str \o ")")

\* the registration of a bang method
C12_Witness ==
    /\ op = "TypeMethod.class_addmethod"
    /\ external_name = "osc" /\ type_str = "bang"
    /\ result = Return("class_addbang(osc_class, osc_bang)")

----------------------------------------------------------------------------
(* C13 *)

\* the outcome is an AudioTypeError whose message names the rejected value
\* and the valid set
RejectedNaming(outcome, value, valid) ==
    /\ outcome.exc = "AudioTypeError"
    /\ Contains(outcome.msg, "'" \o value \o "'")
    /\ Contains(outcome.msg, valid)

\* C13: ScalarType is constructed exactly for bang, float, symbol, pointer and
\* signal, CompoundType exactly for list and anything; no name is accepted by
\* both, and "int" is rejected by ScalarType; every other name fails with an
\* AudioTypeError naming the rejected value and the valid set; a constructed
\* type reads back its name, and str() of it, equal to the input.
C13_TypeClassDomains ==
    LET scalars == {"bang", "float", "symbol", "pointer", "signal"}
        compounds == {"list", "anything"} IN
    /\ op = "ScalarType"
       => IF type_str \in scalars
          THEN result.exc = "" /\ result.val.name = type_str
          ELSE RejectedNaming(result, type_str,
                              "['bang', 'float', 'symbol', 'pointer', 'signal']")
    /\ op = "CompoundType"
       => IF type_str \in compounds
          THEN result.exc = "" /\ result.val.name = type_str
          ELSE RejectedNaming(result, type_str, "['list', 'anything']")
    /\ (op \in {"ScalarType.name", "ScalarType.str"} /\ type_str \in scalars)
       => result = Return(type_str)
    /\ (op \in {"CompoundType.name", "CompoundType.str"} /\ type_str \in compounds)
       => result = Return(type_str)
    /\ api = "Types"
       => ~(ScalarType(type_str).exc = "" /\ CompoundType(type_str).exc = "")

\* "int" is no scalar type
C13_Witness ==
    /\ op = "ScalarType" /\ type_str = "int"
    /\ result = Raise("AudioTypeError",
                      "Invalid type 'int'. Valid types: ['bang', 'float', 'symbol', 'pointer', 'signal']")

----------------------------------------------------------------------------
(* C14 *)

\* C14: reading c_type of the CompoundType "anything" raises AudioTypeError
\* and returns nothing, while every other valid ScalarType or CompoundType
\* name n yields "t_<n>"; lookup_address yields "&s_<n>" for every valid name,
\* "anything" included.
C14_CTypeAndLookupAddress ==
    /\ (op = "CompoundType.c_type" /\ type_str = "anything")
       => result.exc = "AudioTypeError" /\ result.val = ""
    /\ (op = "CompoundType.c_type" /\ type_str = "list")
       => result = Return("t_list")
    /\ (op = "ScalarType.c_type" /\ type_str \in Elems(ScalarType_VALID_TYPES))
       => result = Return("t_" \o type_str)
    /\ \/ op = "ScalarType.lookup_address" /\ type_str \in Elems(ScalarType_VALID_TYPES)
       \/ op = "CompoundType.lookup_address" /\ type_str \in Elems(CompoundType_VALID_TYPES)
       => result = Return("&s_" \o type_str)

\* the c_type of "anything" is refused
C14_Witness ==
    /\ op = "CompoundType.c_type" /\ type_str = "anything"
    /\ result = Raise("AudioTypeError", "C type not available for 'anything' type")

----------------------------------------------------------------------------
(* C15 *)

\* C15: get_pd_mapping and get_func_arg each return exactly for float, symbol
\* and anything, and raise AudioTypeError for every other type name (int,
\* pointer, list, bang and signal included): the two lookups have one domain.
C15_TypeMapperDomain ==
    op \in {"get_pd_mapping", "get_func_arg"}
    => IF type_str \in {"float", "symbol", "anything"}
       THEN result.exc = ""
       ELSE result.exc = "AudioTypeError"

\* "int" has no function argument
C15_Witness ==
    /\ op = "get_func_arg" /\ type_str = "int"
    /\ result.exc = "AudioTypeError"
    /\ get_pd_mapping(type_str).exc = "AudioTypeError"

----------------------------------------------------------------------------
(* C17 *)

\* C17: constructing a child succeeds exactly when its type is in the fixed
\* set of its class: Param {atom, float, symbol, int, signal, sample}, Outlet
\* {float, bang, symbol, list, anything}, TypeMethod {bang, float, int,
\* symbol, pointer, list, anything}; any other type raises AudioTypeError at
\* construction; the param types of a MessageMethod are not checked at
\* construction.
C17_ChildTypeValidation ==
    LET Validated(accepted) ==
            IF type_str \in accepted
            THEN result.exc = "" /\ result.val.type = type_str
            ELSE result.exc = "AudioTypeError" IN
    /\ op = "Param"
       => Validated({"atom", "float", "symbol", "int", "signal", "sample"})
    /\ op = "Outlet"
       => Validated({"float", "bang", "symbol", "list", "anything"})
    /\ op = "TypeMethod"
       => Validated({"bang", "float", "int", "symbol", "pointer", "list", "anything"})
    /\ op = "MessageMethod"
       => result.exc = "" /\ result.val.params = <<type_str>>

\* an outlet of a type only type methods know
C17_Witness ==
    /\ op = "Outlet" /\ type_str = "pointer"
    /\ result = Raise("AudioTypeError",
                      "Invalid outlet type 'pointer'. Valid types: ['float', 'bang', 'symbol', 'list', 'anything']")

----------------------------------------------------------------------------
(* C16 *)

\* the types of the params flagged as constructor arguments
RECURSIVE ArgTypesOf(_)
ArgTypesOf(pdata) ==
    IF Len(pdata) = 0 THEN <<>>
    ELSE IF get(pdata[1], "arg", FALSE)
    THEN <<pdata[1].type>> \o ArgTypesOf(Tail(pdata))
    ELSE ArgTypesOf(Tail(pdata))

\* C16: an External with 1 to 6 constructor-argument params, each of a valid
\* Param type, is constructed and lists its params without error; reading
\* class_new_args or class_type_signature succeeds exactly when every
\* constructor argument is a float or a symbol; when any is an atom, int,
\* signal or sample, either read raises the lookup error.
C16_ParamTypesWiderThanMapper ==
    LET types == ArgTypesOf(ext.params_data) IN
    (/\ ext.constructed
     /\ ValidParamTypes(ext.params_data)
     /\ Len(types) >= 1 /\ Len(types) <= 6)
    => /\ op = "params"
          => result.exc = "" /\ Len(result.val) = Len(ext.params_data)
       /\ op \in {"class_new_args", "class_type_signature"}
          => /\ result.exc = "" <=> Elems(types) \subseteq {"float", "symbol"}
             /\ Elems(types) \cap {"atom", "int", "signal", "sample"} # {}
                => result.exc = "AudioTypeError" /\ StartsWith(result.msg, "Unknown ")

\* six constructor arguments, the last one a sample
C16_Witness ==
    /\ ext.constructed
    /\ Len(ext.params_data) = 6
    /\ \A i \in 1..5 : ext.params_data[i].type \in {"float", "symbol"}
    /\ ext.params_data[6].type = "sample"
    /\ op = "class_type_signature"
    /\ result = Raise("AudioTypeError",
                      "Unknown type mapping for 'sample'. Valid types: ['float', 'symbol', 'anything']")

----------------------------------------------------------------------------
(* C18 *)

\* every raw child mapping of the External names a type its class accepts
AllChildTypesValid(self) ==
    /\ ValidParamTypes(self.params_data)
    /\ \A i \in DOMAIN self.outlets_data :
         self.outlets_data[i].type \in Elems(valid_outlet_types)
    /\ \A i \in DOMAIN self.type_methods_data :
         self.type_methods_data[i].type \in Elems(TypeMethod_VALID_TYPES)

\* C18: model construction is all-or-nothing: building an External from a
\* mapping that contains a param, outlet or type method of an invalid type
\* fails at construction, so that no External is returned: every External
\* that exists has children of valid types only.
C18_ConstructionAllOrNothing ==
    ext.constructed => AllChildTypesValid(ext)

----------------------------------------------------------------------------
(* C19 *)

\* the specification file holds a dictionary with a non-empty "externals" list
HasExternalEntry ==
    /\ spec_file.kind = "parsed"
    /\ isinstance(spec_file.data, "dict")
    /\ "externals" \in DOMAIN spec_file.data.d
    /\ isinstance(spec_file.data.d.externals, "list")
    /\ Len(spec_file.data.d.externals.items) > 0

\* the keys of the first external entry
EntryKeys == DOMAIN spec_file.data.d.externals.items[1].d

\* the value the first external entry holds under a key
EntryValue(key) == spec_file.data.d.externals.items[1].d[key]

ListKeys == {"params", "outlets", "message_methods", "type_methods"}

\* C19: validate_specification_structure raises ValueError whenever the
\* external entry lacks name or namespace, and whenever params, outlets,
\* message_methods or type_methods is present and is not a list; when these
\* four keys are absent the check passes, and the External that render builds
\* receives an empty list for each of them.
C19_StructureValidation ==
    /\ (op = "validate_specification_structure" /\ HasExternalEntry)
       => /\ ~({"name", "namespace"} \subseteq EntryKeys)
             => result.exc = "ValueError"
          /\ (\E key \in ListKeys \cap EntryKeys : EntryValue(key).kind # "list")
             => result.exc = "ValueError"
          /\ ({"name", "namespace"} \subseteq EntryKeys /\ ListKeys \cap EntryKeys = {})
             => result.exc = "" /\ pc = "template"
    /\ (op = "External" /\ api = "Generator")
       => /\ model.constructed
          /\ "params" \notin EntryKeys => model.params_data = <<>>
          /\ "outlets" \notin EntryKeys => model.outlets_data = <<>>
          /\ "message_methods" \notin EntryKeys => model.message_methods_data = <<>>
          /\ "type_methods" \notin EntryKeys => model.type_methods_data = <<>>

\* an entry with a name and a namespace only has become an External without
\* children
C19_Witness ==
    /\ op = "External" /\ api = "Generator"
    /\ EntryKeys = {"name", "namespace"}
    /\ model.constructed /\ model.name = "counter"
    /\ model.params_data = <<>> /\ model.outlets_data = <<>>
    /\ model.message_methods_data = <<>> /\ model.type_methods_data = <<>>

----------------------------------------------------------------------------
(* C20 *)

\* C20: in Generator.render a structural error is raised before any External
\* is constructed: while render loads and validates the specification the
\* generator's model keeps its value and no output file is written, and a
\* failing validation ends the render with that ValueError.
C20_StructuralErrorFirst ==
    [][/\ pc \in {"load", "validate"} => model' = model /\ written' = written
       /\ (pc = "validate" /\ validate_specification_structure(spec_data).exc # "")
          => /\ pc' = "raised"
             /\ op' = "validate_specification_structure"
             /\ result'.exc = "ValueError"]_vars

\* the second render fails on the rewritten file; the model and the output of
\* the first render are still there
C20_Witness ==
    /\ pc = "raised" /\ renders = 2
    /\ op = "validate_specification_structure"
    /\ result = Raise("ValueError", "'params' must be a list")
    /\ model.constructed /\ model.name = "counter"
    /\ written = 1

----------------------------------------------------------------------------
(* C21 *)

----------------------------------------------------------------------------
(* C22 *)

\* an External with one float param flagged as constructor argument, one
\* float outlet, a message method "reset" without params and a type method
\* "bang"
EndToEndExternal ==
    /\ ext.constructed
    /\ Len(ext.params_data) = 1
    /\ ext.params_data[1].type = "float" /\ get(ext.params_data[1], "arg", FALSE)
    /\ ext.outlets_data = <<[name |-> "out", type |-> "float"]>>
    /\ ext.message_methods_data = <<[name |-> "reset"]>>
    /\ ext.type_methods_data = <<[type |-> "bang"]>>

\* C22: end to end, an External built from one float param flagged as
\* constructor argument, one float outlet, a message method "reset" without
\* params and a type method "bang" yields class_new_args "t_floatarg f0",
\* class_type_signature "A_DEFFLOAT, 0", the registration call of reset in the
\* no-params form, ending in ", 0)", and the type-method registration call
\* "class_addbang(<name>_class, <name>_bang)".
C22_EndToEnd ==
    EndToEndExternal
    => /\ op = "class_new_args" => result = Return("t_floatarg f0")
       /\ op = "class_type_signature" => result = Return("A_DEFFLOAT, 0")
       /\ op = "message_methods[0].class_addmethod"
          => result = Return("class_addmethod(" \o ext.name \o "_class, (t_method)"
                             \o ext.name \o "_reset, gensym(\"reset\"), 0)")
       /\ op = "type_methods[0].class_addmethod"
          => result = Return("class_addbang(" \o ext.name \o "_class, "
                             \o ext.name \o "_bang)")
       /\ op \in {"params", "outlets", "message_methods", "type_methods"}
          => result.exc = "" /\ Len(result.val) = 1

\* the constructor arguments of the end-to-end External
C22_Witness ==
    /\ EndToEndExternal
    /\ ext.name = "counter"
    /\ op = "class_new_args"
    /\ result = Return("t_floatarg f0")

----------------------------------------------------------------------------
(* C23 *)

\* the pieces of s between the occurrences of sep
RECURSIVE Split(_, _)
Split(s, sep) ==
    LET hits == {i \in 1..(Len(s) - Len(sep) + 1) : SubSeq(s, i, i + Len(sep) - 1) = sep} IN
    IF hits = {} THEN <<s>>
    ELSE LET first == CHOOSE i \in hits : \A j \in hits : i <= j IN
         <<SubSeq(s, 1, first - 1)>> \o Split(SubSeq(s, first + Len(sep), Len(s)), sep)

\* the identifier a C parameter declaration declares: what follows its last
\* blank or asterisk
Identifier(decl) ==
    LET cuts == {i \in 1..Len(decl) : SubSeq(decl, i, i) \in {" ", "*"}}
        last == IF cuts = {} THEN 0 ELSE CHOOSE i \in cuts : \A j \in cuts : i >= j IN
    SubSeq(decl, last + 1, Len(decl))

\* the identifiers declared by a C parameter list
Identifiers(s) == LET decls == Split(s, ", ") IN [i \in DOMAIN decls |-> Identifier(decls[i])]

PairwiseDistinct(list) == \A i, j \in DOMAIN list : i # j => list[i] # list[j]

\* C23: the ordinal suffix disambiguates repeated types: for every argument
\* list of length 1 to 6 whose types all have a Type Mapper entry (float,
\* symbol, anything), the identifiers declared in the string returned by
\* build_constructor_args are pairwise distinct, and likewise the identifiers
\* after the self-reference in build_method_args.
C23_DistinctIdentifiers ==
    /\ (op = "build_constructor_args" /\ TypedCount(args) /\ AllMapped(ArgTypeNames))
       => result.exc = "" /\ PairwiseDistinct(Identifiers(result.val))
    /\ (op = "build_method_args" /\ TypedCount(params) /\ AllMapped(params)
          /\ params # <<"list">>)
       => result.exc = "" /\ PairwiseDistinct(Tail(Identifiers(result.val)))

----------------------------------------------------------------------------
(* C24 *)

\* C24: the unknown-type guard of TypeMethod.args is unreachable for valid
\* configurations: for every TypeMethod whose construction succeeded, reading
\* args returns a string and never raises, because the set of types accepted
\* at construction is the set of types the argument table covers.
C24_ArgsGuardUnreachable ==
    /\ op = "TypeMethod.args"
       => IF TypeMethod(parent, type_str).exc = ""
          THEN result.exc = "" /\ StartsWith(result.val, "t_" \o external_name \o " *x")
          ELSE StartsWith(result.msg, "Invalid type method ")
    /\ (ext.constructed /\ op \in {"type_methods[0].args", "type_methods[1].args"}
          /\ type_method_objects(ext).exc = "")
       => result.exc = ""
    /\ Elems(TypeMethod_VALID_TYPES) = DOMAIN type_args_map

\* the args of a pointer method of a constructed External
C24_Witness ==
    /\ op = "TypeMethod.args" /\ type_str = "pointer" /\ external_name = "osc"
    /\ TypeMethod(parent, type_str).exc = ""
    /\ result = Return("t_osc *x, t_gpointer *pt")

----------------------------------------------------------------------------
(* C25: the exit code of main() *)

\* --verbose and --quiet were both given
OptionConflict == argv.verbose /\ argv.quiet

\* generate rendered and wrote every template of the target
GenerationCompleted ==
    /\ pc = "done"
    /\ renders = templates(argv.target)
    /\ written = templates(argv.target)

\* generate raised: the directory, the Makefile copy, or a render
GenerationRaised ==
    \/ pc = "raised"
    \/ op = "generate" /\ result.exc # ""

\* C25: when main() has returned, the exit code is 0 or 1; it is 1 when
\* --verbose and --quiet were both given, even with --list-examples; otherwise
\* 0 after listing the examples; otherwise 1 for a missing specification file;
\* otherwise, with --validate, 0 exactly when the file loads and its structure
\* validates; otherwise 0 exactly when generation completed and 1 exactly when
\* it raised. With --validate nothing is ever rendered or written.
C25_ExitCodes ==
    /\ main_pc = "returned"
       => /\ exit_code \in {0, 1}
          /\ IF OptionConflict THEN exit_code = 1
             ELSE IF argv.list_examples THEN exit_code = 0
             ELSE IF spec_file.kind = "missing" THEN exit_code = 1
             ELSE IF argv.validate
             THEN exit_code = 0
                  <=> /\ spec_file.kind = "parsed"
                      /\ validate_specification_structure(spec_file.data).exc = ""
             ELSE /\ exit_code = 0 <=> GenerationCompleted
                  /\ exit_code = 1 <=> GenerationRaised
    /\ (api = "CLI" /\ argv.validate)
       => /\ renders = 0 /\ written = 0
          /\ model = NoExternal
          /\ main_pc \in {"start", "returned"}

\* main() generated a PureData project, three files written, and returned 0
C25_Witness ==
    /\ main_pc = "returned" /\ exit_code = 0
    /\ ~argv.validate /\ ~argv.list_examples /\ ~argv.quiet
    /\ argv.target = "pd" /\ written = 3 /\ model.constructed

----------------------------------------------------------------------------
(* C26 *)

\* C26: for a constructed External whose params all pass Param's validation
\* and whose constructor-argument params are all floats or symbols, the
\* ordinals and the six-argument threshold run over the flagged params only,
\* in specification order: with none flagged class_new_args is "void", with 1
\* to 6 flagged it is the join of their fragments, the k-th flagged param
\* carrying ordinal k - 1 wherever it stands in the params list, and
\* class_type_signature is the join of their tags and a final 0; only with
\* more than 6 flagged are the generic triple and "A_GIMME, 0" emitted,
\* however many params there are.
C26_OrdinalsOverArgsOnly ==
    LET types == ArgTypesOf(ext.params_data) IN
    (/\ ext.constructed
     /\ ValidParamTypes(ext.params_data)
     /\ AllMapped(types))
    => /\ op = "class_new_args"
          => IF Len(types) = 0 THEN result = Return("void")
             ELSE IF Len(types) <= MAX_TYPED_ARGS
             THEN /\ result.exc = ""
                  /\ IsJoinOf(result.val,
                              [k \in DOMAIN types |-> FUNC_TYPE_ARGS[types[k]] \o Digits[k]],
                              ", ")
             ELSE result = Return("t_symbol *s, int argc, t_atom *argv")
       /\ op = "class_type_signature"
          => IF Len(types) = 0 THEN result = Return(", 0")
             ELSE IF Len(types) <= MAX_TYPED_ARGS
             THEN /\ result.exc = ""
                  /\ IsJoinOf(result.val,
                              [k \in DOMAIN types |-> TYPE_MAPPINGS[types[k]]] \o <<"0">>,
                              ", ")
             ELSE result = Return("A_GIMME, 0")

\* seven params, the second of them no constructor argument: six fragments,
\* the third param carrying ordinal 1
C26_Witness ==
    /\ ext.constructed
    /\ Len(ext.params_data) = 7
    /\ ~get(ext.params_data[2], "arg", FALSE)
    /\ Len(ArgTypesOf(ext.params_data)) = 6
    /\ op = "class_new_args"
    /\ result = Return("t_floatarg f0, t_floatarg f1, t_floatarg f2, "
                          \o "t_floatarg f3, t_floatarg f4, t_floatarg f5")

----------------------------------------------------------------------------
(* C27 *)

\* what each builder returns on each branch, for mapped types
ConstructorArgsOn(branch, types, s) ==
    IF branch = "empty" THEN s = "void"
    ELSE IF branch = "generic" THEN s = "t_symbol *s, int argc, t_atom *argv"
    ELSE IsJoinOf(s, [i \in DOMAIN types |-> FUNC_TYPE_ARGS[types[i]] \o Digits[i]], ", ")

TypeSignatureOn(branch, types, s) ==
    IF branch = "empty" THEN s = ", 0"
    ELSE IF branch = "generic" THEN s = "A_GIMME, 0"
    ELSE IsJoinOf(s, [i \in DOMAIN types |-> TYPE_MAPPINGS[types[i]]] \o <<"0">>, ", ")

MethodArgsOn(branch, types, s) ==
    IF branch = "empty" THEN s = OwnerType \o " *x"
    ELSE IF branch = "generic"
    THEN s = OwnerType \o " *x, t_symbol *s, int argc, t_atom *argv"
    ELSE IsJoinOf(s, <<OwnerType \o " *x">>
                        \o [i \in DOMAIN types |-> FUNC_TYPE_ARGS[types[i]] \o Digits[i]],
                  ", ")

MessageAddmethodOn(branch, types, s) ==
    /\ StartsWith(s, AddmethodHead)
    /\ EndsWith(s, ")")
    /\ IF branch = "empty" THEN s = AddmethodHead \o "0)"
       ELSE IF branch = "generic" THEN s = AddmethodHead \o "A_GIMME, 0)"
       ELSE IsJoinOf(Between(s, AddmethodHead, ")"),
                     [i \in DOMAIN types |-> TYPE_MAPPINGS[types[i]]] \o <<"0">>, ", ")

\* the two builders of a constructor-argument list fail together, and take the
\* same branch when they succeed
ConstructorPairAgrees(arglist, new_args, signature) ==
    LET types == [i \in DOMAIN arglist |-> arglist[i].type] IN
    /\ (new_args.exc # "") <=> (signature.exc # "")
    /\ new_args.exc = signature.exc
    /\ build_constructor_args_branch(arglist) = build_type_signature_branch(arglist)
    /\ new_args.exc = ""
       => /\ ConstructorArgsOn(build_constructor_args_branch(arglist), types, new_args.val)
          /\ TypeSignatureOn(build_type_signature_branch(arglist), types, signature.val)

\* the two builders of a message-method params list fail together, and take
\* the same branch when they succeed
MethodPairAgrees(plist, method_args, addmethod) ==
    /\ (method_args.exc # "") <=> (addmethod.exc # "")
    /\ method_args.exc = addmethod.exc
    /\ build_method_args_branch(plist) = generate_message_addmethod_branch(plist)
    /\ method_args.exc = ""
       => /\ MethodArgsOn(build_method_args_branch(plist), plist, method_args.val)
          /\ MessageAddmethodOn(generate_message_addmethod_branch(plist), plist,
                                addmethod.val)

\* C27: for every constructor-argument list build_constructor_args raises if
\* and only if build_type_signature raises, and for every message-method params
\* list build_method_args raises if and only if generate_message_addmethod
\* raises; when they return, both took the same branch (empty, per-position or
\* generic) and returned what that branch returns.
C27_FailTogether ==
    /\ op = "build_constructor_args"
       => ConstructorPairAgrees(args, result, build_type_signature(args))
    /\ op = "build_type_signature"
       => ConstructorPairAgrees(args, build_constructor_args(args), result)
    /\ op = "build_method_args"
       => MethodPairAgrees(params, result,
                           generate_message_addmethod(external_name, method_name, params))
    /\ op = "generate_message_addmethod"
       => MethodPairAgrees(params, build_method_args(OwnerType, params), result)

\* "list" beside a float is read per position and has no table entry: the
\* registration raised, and so does the argument string
C27_Witness ==
    /\ op = "generate_message_addmethod"
    /\ params = <<"list", "float">>
    /\ result.exc = "AudioTypeError"
    /\ build_method_args(OwnerType, params).exc = "AudioTypeError"

----------------------------------------------------------------------------
(* C28 *)

\* the reads that build the Param objects
ParamReads ==
    {"params", "args", "inlets", "class_new_args", "class_type_signature",
     "class_addcreator"}

ValidOutletTypes(odata) ==
    \A i \in DOMAIN odata : odata[i].type \in Elems(valid_outlet_types)

ValidTypeMethodTypes(tdata) ==
    \A i \in DOMAIN tdata : tdata[i].type \in Elems(TypeMethod_VALID_TYPES)

\* the read raised a child's type-validation error
TypeValidationError(kind) ==
    /\ result.exc = "AudioTypeError"
    /\ StartsWith(result.msg, "Invalid " \o kind)

\* C28: a type-validation failure is scoped by list. With a param of an
\* invalid type, flagged or not, each read of params, args, inlets,
\* class_new_args, class_type_signature and class_addcreator raises the
\* parameter type-validation error, and with valid params none of them raises
\* a type-validation error, whatever the outlets and type methods are; reading
\* outlets raises (the outlet error) exactly when an outlet type is invalid,
\* reading type_methods raises (the type method error) exactly when a type
\* method type is invalid, and reading message_methods never raises, whatever
\* the params are.
C28_FailureScopedByList ==
    ext.constructed
    => /\ op \in ParamReads
          => IF ValidParamTypes(ext.params_data)
             THEN ~StartsWith(result.msg, "Invalid ")
             ELSE TypeValidationError("parameter type '")
       /\ (op \in {"params", "args", "inlets"} /\ ValidParamTypes(ext.params_data))
          => result.exc = ""
       /\ op = "outlets"
          => IF ValidOutletTypes(ext.outlets_data) THEN result.exc = ""
             ELSE TypeValidationError("outlet type '")
       /\ op = "type_methods"
          => IF ValidTypeMethodTypes(ext.type_methods_data) THEN result.exc = ""
             ELSE TypeValidationError("type method '")
       /\ op = "message_methods" => result.exc = ""

\* a param that is neither constructor argument nor inlet has an invalid type,
\* a type method too: the outlets are still read
C28_Witness ==
    /\ ext.constructed
    /\ ext.params_data = <<[name |-> "step", type |-> "float", arg |-> TRUE, inlet |-> TRUE],
                           [name |-> "bad", type |-> "bogus", arg |-> FALSE]>>
    /\ ext.outlets_data = <<[name |-> "out", type |-> "float"]>>
    /\ ~ValidTypeMethodTypes(ext.type_methods_data)
    /\ op = "outlets"
    /\ result.exc = ""
    /\ param_objects(ext).exc = "AudioTypeError"

----------------------------------------------------------------------------
(* C29 *)

\* 'class_addcreator((t_newmethod)<name>_new, gensym("<alias>"), '
CreatorHead(name, al) ==
    "class_addcreator((t_newmethod)" \o name \o "_new, gensym(\"" \o al \o "\"), "

\* the read of class_addcreator is the head, the External's type signature as
\* it reads, and ")"; a signature that raises makes the read raise the same
\* error. With 1 to 6 float or symbol constructor arguments the list after
\* gensym is their tags and 0; with none it is an empty position and 0.
SignatureSpliced(self) ==
    LET sig == class_type_signature(self)
        head == CreatorHead(self.name, self.alias.s)
        types == ArgTypesOf(self.params_data)
    IN  IF sig.exc # "" THEN result = sig
        ELSE /\ result = Return(head \o sig.val \o ")")
             /\ (ValidParamTypes(self.params_data) /\ TypedCount(types) /\ AllMapped(types))
                => IsJoinOf(Between(result.val, head, ")"),
                            [i \in DOMAIN types |-> TYPE_MAPPINGS[types[i]]] \o <<"0">>,
                            ", ")
             /\ (ValidParamTypes(self.params_data) /\ Len(types) = 0)
                => /\ result.val = head \o ", 0)"
                   /\ Contains(result.val, "gensym(\"" \o self.alias.s \o "\"), , 0)")

\* generate_creator_call with an alias that is set and is not the name
CreatorCallSpliced ==
    (op = "generate_creator_call" /\ ~AliasRedundant)
    => result = Return(CreatorHead(external_name, alias.s) \o type_signature \o ")")

----------------------------------------------------------------------------
(* C30 *)

\* the params list has 1 to 6 entries, one of them "anything"
TypedWithAnything(plist) ==
    /\ TypedCount(plist)
    /\ \E i \in DOMAIN plist : plist[i] = "anything"

\* C30: a params list of 1 to 6 entries that contains "anything" takes the
\* per-position branch in both builders: when no entry is "list" the argument
\* string is the self-reference and one fragment per entry with its ordinal,
\* the catch-all triple of an "anything" entry included. For params exactly
\* ["anything"] generate_message_addmethod returns what it returns for
\* ["list"], the tags being "A_GIMME, 0", while build_method_args returns
\* "T *x, t_symbol *s, int argc, t_atom *argv0", which is not what it returns
\* for ["list"].
C30_AnythingPerPosition ==
    /\ (op \in {"build_method_args", "generate_message_addmethod"}
          /\ TypedWithAnything(params))
       => /\ build_method_args_branch(params) = "per-position"
          /\ generate_message_addmethod_branch(params) = "per-position"
    /\ (op = "build_method_args" /\ TypedWithAnything(params) /\ AllMapped(params))
       => /\ result.exc = ""
          /\ IsJoinOf(result.val,
                      <<OwnerType \o " *x">>
                          \o [i \in DOMAIN params |-> FUNC_TYPE_ARGS[params[i]] \o Digits[i]],
                      ", ")
    /\ (op = "generate_message_addmethod" /\ params = <<"anything">>)
       => /\ result = Return(AddmethodHead \o "A_GIMME, 0)")
          /\ result = generate_message_addmethod(external_name, method_name, <<"list">>)
    /\ (op = "build_method_args" /\ params = <<"anything">>)
       => /\ result = Return(OwnerType \o " *x, t_symbol *s, int argc, t_atom *argv0")
          /\ result # build_method_args(OwnerType, <<"list">>)
          /\ build_method_args(OwnerType, <<"list">>)
               = Return(OwnerType \o " *x, t_symbol *s, int argc, t_atom *argv")

\* ["anything"]: the triple with ordinal 0 on its last identifier
C30_Witness ==
    /\ op = "build_method_args"
    /\ params = <<"anything">>
    /\ external_name = "osc"
    /\ result = Return("t_osc *x, t_symbol *s, int argc, t_atom *argv0")

====
